---- MODULE Spec2Model ----
(***************************************************************************)
(* A model of the embedded HTTP/1.1 engine of src/httpserver.h (the epoll  *)
(* build, which is what __linux__ selects) and of the volume-control       *)
(* request handler that runs on top of it.                                 *)
(*                                                                         *)
(* Bytes are their ASCII codes, buffers are sequences of bytes, and every  *)
(* index is the C (0-based) index: At(buf, i) is buf[i].                   *)
(***************************************************************************)
EXTENDS Integers, Sequences, FiniteSets, TLC

(***************************************************************************)
(* Configuration macros.  The application-configurable sizes are scaled    *)
(* down so that the cases that depend on them (a token that is too long,   *)
(* request of too many headers, a buffer that has to grow, a countdown that *)
(* runs out) are reached with requests of a few dozen bytes.               *)
(***************************************************************************)
HTTP_REQUEST_BUF_SIZE == 32        \* 1024 in the source
HTTP_RESPONSE_BUF_SIZE == 160       \* 512 in the source
HTTP_REQUEST_TIMEOUT == 2          \* 20 in the source
HTTP_KEEP_ALIVE_TIMEOUT == 3       \* 120 in the source
HTTP_MAX_CONTENT_LENGTH == 8388608
HTTP_MAX_TOKEN_LENGTH == 18        \* 8192 in the source
HTTP_MAX_TOTAL_EST_MEM_USAGE == 40 \* 4294967296 in the source
HTTP_MAX_HEADER_COUNT == 3         \* 127 in the source

\* token types / parser states
HTTP_METHOD == 0
HTTP_TARGET == 1
HTTP_VERSION == 2
HTTP_HEADER_KEY == 3
HTTP_HEADER_VALUE == 4
HTTP_HEADER_END == 5
HTTP_NONE == 6
HTTP_BODY == 7
HTTP_PARSE_ERROR == 13

\* error sub types
HTTP_ERR_PAYLOAD_TOO_LARGE == 0
HTTP_ERR_BAD_REQUEST == 1

\* chunked token types / parser states
HTTP_CHUNK_SIZE == 8
HTTP_CHUNK_EXTN == 9
HTTP_CHUNK_BODY == 10
HTTP_CHUNK_BODY_END == 11

\* parser flags (the bits of parser->flags, as a set)
HS_PF_TRANSFER_ENCODING == "HS_PF_TRANSFER_ENCODING"
HS_PF_CONTENT_LENGTH == "HS_PF_CONTENT_LENGTH"
HS_PF_CHUNKED == "HS_PF_CHUNKED"

\* parser sub states
HTTP_LWS == 2
HTTP_CR == 3
HTTP_CRLF == 4

\* parser comparisons
HS_CONTENT_LENGTH_LOW == <<99, 111, 110, 116, 101, 110, 116, 45, 108, 101, 110, 103, 116, 104>>
HS_CONTENT_LENGTH_UP == <<67, 79, 78, 84, 69, 78, 84, 45, 76, 69, 78, 71, 84, 72>>
HS_TRANSFER_ENCODING_LOW == <<116, 114, 97, 110, 115, 102, 101, 114, 45, 101, 110, 99, 111, 100, 105, 110, 103>>
HS_TRANSFER_ENCODING_UP == <<84, 82, 65, 78, 83, 70, 69, 82, 45, 69, 78, 67, 79, 68, 73, 78, 71>>
HS_CHUNKED_LOW == <<99, 104, 117, 110, 107, 101, 100>>
HS_CHUNKED_UP == <<67, 72, 85, 78, 75, 69, 68>>

\* parser sentinel lengths
HTTP_CHUNKED_LEN == -1

\* The value of an int that the code never assigned (hs_parse_error leaves
\* token.len unset).  No assigned length is ever this small; the places that
\* read a length treat it as "any value".
HS_UNINIT == -1000000

\* ASCII
SP == 32
HT == 9
CR == 13
LF == 10
COLON == 58
SEMI == 59
ZERO == 48

\* input[i] of the C code; a C string reads as NUL at its end.
At(str, i) == IF i >= 0 /\ i < Len(str) THEN str[i + 1] ELSE 0

\* s[a], ..., s[a + n - 1] (C indices), as far as s reaches.
Slice(s, a, n) ==
  IF n <= 0 \/ a < 0 \/ a >= Len(s) THEN << >>
  ELSE SubSeq(s, a + 1, IF a + n <= Len(s) THEN a + n ELSE Len(s))

Max(a, b) == IF a >= b THEN a ELSE b
Min(a, b) == IF a <= b THEN a ELSE b

\* A byte of heap memory that nothing has written (malloc, realloc growth).
INDETERMINATE == 255

\* buf after storing data at buf[off], ...; a gap that opens between the old end
\* and off holds fill.
WriteAt(buf, off, data, fill) ==
  LET newlen == Max(Len(buf), off + Len(data))
  IN [j \in 1..newlen |->
        IF j > off /\ j <= off + Len(data) THEN data[j - off]
        ELSE IF j <= Len(buf) THEN buf[j]
        ELSE fill]

\* a * 10 + d in 32-bit int arithmetic (two's complement wrap-around), computed
\* on 16-bit halves so that no intermediate result leaves the 32-bit range.
Mul10Add32(a, d) ==
  LET lo == a % 65536
      hi == (a - lo) \div 65536
      lo10 == lo * 10 + d
      lo2 == lo10 % 65536
      carry == (lo10 - lo2) \div 65536
      hi2 == (hi * 10 + carry) % 65536
  IN (IF hi2 >= 32768 THEN hi2 - 65536 ELSE hi2) * 65536 + lo2

\* a * 0x10 + d in 32-bit int arithmetic, likewise.
Mul16Add32(a, d) ==
  LET lo == a % 65536
      hi == (a - lo) \div 65536
      lo16 == lo * 16 + d
      lo2 == lo16 % 65536
      carry == (lo16 - lo2) \div 65536
      hi2 == (hi * 16 + carry) % 65536
  IN (IF hi2 >= 32768 THEN hi2 - 65536 ELSE hi2) * 65536 + lo2

\* (int64_t)a * 10 + d > HTTP_MAX_CONTENT_LENGTH, for a 32-bit a and a byte d.
Mul10AddExceeds(a, d, max) ==
  IF a >= 100000000 THEN TRUE
  ELSE IF a <= -100000000 THEN FALSE
  ELSE a * 10 + d > max

(***************************************************************************)
(* The request parser                                                      *)
(***************************************************************************)

\* The parser of a session that hs_init_session has just zeroed.
ParserInit ==
  [content_length |-> 0, len |-> 0, token_start_index |-> 0, start |-> 0,
   body_start_index |-> 0, header_count |-> 0, content_length_i |-> 0,
   transfer_encoding_i |-> 0, flags |-> {}, state |-> HTTP_METHOD, sub_state |-> 0]

Token(index, len, type) == [index |-> index, len |-> len, type |-> type]

TokenNone == Token(0, 0, HTTP_NONE)

HS_P_MATCH_HEADER(up, low, c, i) ==
  IF (c = At(up, i) \/ c = At(low, i)) /\ i < Len(up) THEN i + 1 ELSE i

hs_parse_error(parser, subtype) ==
  [parser |-> [parser EXCEPT !.len = 0, !.state = HTTP_PARSE_ERROR],
   token |-> Token(subtype, HS_UNINIT, HTTP_PARSE_ERROR)]

\* What one pass through the switch of http_parse does with byte c at index i:
\* "return" a token, "break" out of the switch (the token-length test follows)
\* or "continue" the loop.
SwReturn(p, tok) == [kind |-> "return", p |-> p, tok |-> tok, i |-> 0]
SwBreak(p, i) == [kind |-> "break", p |-> p, tok |-> TokenNone, i |-> i]
SwContinue(p, i) == [kind |-> "continue", p |-> p, tok |-> TokenNone, i |-> i]

\* return of a token that a helper made together with the parser's new state
SwToken(t) == SwReturn(t.parser, t.token)

http_parse_method(p, c, i) ==
  IF c = SP
  THEN SwReturn([p EXCEPT !.state = HTTP_TARGET, !.len = 0, !.token_start_index = i + 1],
                Token(p.token_start_index, p.len, HTTP_METHOD))
  ELSE SwBreak(p, i)

http_parse_target(p, c, i) ==
  IF c = SP
  THEN SwReturn([p EXCEPT !.state = HTTP_VERSION, !.len = 0, !.token_start_index = i + 1],
                Token(p.token_start_index, p.len, HTTP_TARGET))
  ELSE SwBreak(p, i)

http_parse_version(p, c, i) ==
  IF c = CR
  THEN SwReturn([p EXCEPT !.sub_state = HTTP_CR],
                Token(p.token_start_index, p.len, HTTP_VERSION))
  ELSE IF p.sub_state = HTTP_CR /\ c = LF
  THEN SwBreak([p EXCEPT !.sub_state = 0, !.len = 0, !.token_start_index = i + 1,
                         !.state = HTTP_HEADER_KEY], i)
  ELSE SwBreak(p, i)

http_parse_header_key(p, c, i) ==
  IF c = COLON
  THEN LET fl == IF p.len = p.content_length_i + 1
                 THEN p.flags \cup {HS_PF_CONTENT_LENGTH}
                 ELSE IF p.len = p.transfer_encoding_i + 1
                 THEN p.flags \cup {HS_PF_TRANSFER_ENCODING}
                 ELSE p.flags
       IN SwReturn([p EXCEPT !.state = HTTP_HEADER_VALUE, !.sub_state = HTTP_LWS,
                             !.flags = fl, !.content_length_i = 0,
                             !.transfer_encoding_i = 0],
                   Token(p.token_start_index, p.len - 1, HTTP_HEADER_KEY))
  ELSE SwBreak([p EXCEPT
         !.content_length_i =
            HS_P_MATCH_HEADER(HS_CONTENT_LENGTH_UP, HS_CONTENT_LENGTH_LOW, c, @),
         !.transfer_encoding_i =
            HS_P_MATCH_HEADER(HS_TRANSFER_ENCODING_UP, HS_TRANSFER_ENCODING_LOW, c, @)], i)

http_parse_header_value(p, c, i) ==
  IF p.sub_state = HTTP_LWS /\ c \in {SP, HT, CR, LF}
  THEN SwContinue(p, i)
  ELSE IF p.sub_state = HTTP_LWS
  THEN LET q == [p EXCEPT !.sub_state = 0, !.len = 0, !.token_start_index = i]
       IN IF HS_PF_CONTENT_LENGTH \in p.flags
          THEN SwBreak([q EXCEPT !.content_length =
                           Mul10Add32(p.content_length, c - ZERO)], i)
          ELSE IF HS_PF_TRANSFER_ENCODING \in p.flags
          THEN SwBreak([q EXCEPT !.transfer_encoding_i =
                           HS_P_MATCH_HEADER(HS_CHUNKED_UP, HS_CHUNKED_LOW, c, @)], i)
          ELSE SwBreak(q, i)
  ELSE IF c = CR
  THEN LET fl == (p.flags \ {HS_PF_TRANSFER_ENCODING, HS_PF_CONTENT_LENGTH})
                   \cup (IF p.len = p.transfer_encoding_i THEN {HS_PF_CHUNKED} ELSE {})
           q == [p EXCEPT !.sub_state = HTTP_CR, !.state = HTTP_HEADER_END,
                          !.flags = fl, !.transfer_encoding_i = 0]
       IN IF p.header_count = HTTP_MAX_HEADER_COUNT
          THEN SwToken(hs_parse_error(q, HTTP_ERR_BAD_REQUEST))
          ELSE SwReturn([q EXCEPT !.header_count = @ + 1],
                        Token(p.token_start_index, p.len, HTTP_HEADER_VALUE))
  ELSE IF HS_PF_CONTENT_LENGTH \in p.flags
  THEN IF Mul10AddExceeds(p.content_length, c - ZERO, HTTP_MAX_CONTENT_LENGTH)
       THEN SwToken(hs_parse_error(p, HTTP_ERR_PAYLOAD_TOO_LARGE))
       ELSE SwBreak([p EXCEPT !.content_length = Mul10Add32(@, c - ZERO)], i)
  ELSE IF HS_PF_TRANSFER_ENCODING \in p.flags
  THEN SwBreak([p EXCEPT !.transfer_encoding_i =
                   HS_P_MATCH_HEADER(HS_CHUNKED_UP, HS_CHUNKED_LOW, c, @)], i)
  ELSE SwBreak(p, i)

http_parse_header_end(p, c, i) ==
  IF p.sub_state = 0 /\ c = CR
  THEN SwBreak([p EXCEPT !.sub_state = HTTP_CR], i)
  ELSE IF p.sub_state = HTTP_CR /\ c = LF
  THEN SwBreak([p EXCEPT !.sub_state = HTTP_CRLF], i)
  ELSE IF p.sub_state = HTTP_CRLF /\ c = CR
  THEN SwReturn([p EXCEPT !.sub_state = 0, !.state = HTTP_BODY,
                          !.body_start_index = i + 2, !.start = @ + 1],
                Token(i + 2,
                      IF HS_PF_CHUNKED \in p.flags THEN HTTP_CHUNKED_LEN
                      ELSE p.content_length,
                      HTTP_BODY))
  ELSE IF p.sub_state = HTTP_CRLF
  THEN SwBreak([p EXCEPT !.sub_state = 0, !.len = 0, !.token_start_index = i,
                         !.state = HTTP_HEADER_KEY], i - 1)
  ELSE SwBreak(p, i)

http_parse_switch(p, c, i) ==
  CASE p.state = HTTP_METHOD -> http_parse_method(p, c, i)
    [] p.state = HTTP_TARGET -> http_parse_target(p, c, i)
    [] p.state = HTTP_VERSION -> http_parse_version(p, c, i)
    [] p.state = HTTP_HEADER_KEY -> http_parse_header_key(p, c, i)
    [] p.state = HTTP_HEADER_VALUE -> http_parse_header_value(p, c, i)
    [] p.state = HTTP_HEADER_END -> http_parse_header_end(p, c, i)
    [] OTHER -> SwBreak(p, i)

\* The loop's increment expression: ++i, parser->start = i + 1, parser->len++.
http_parse_advance(p, i) == [p EXCEPT !.start = (i + 1) + 1, !.len = @ + 1]

\* The for loop of http_parse from index i; http_parse_rest is the loop body
\* after the switch (r is what the switch did), the increment and the next turn.
RECURSIVE http_parse_from(_, _, _, _)
RECURSIVE http_parse_rest(_, _, _)
http_parse_from(p, input, n, i) ==
  IF i >= n THEN [parser |-> p, token |-> TokenNone]
  ELSE http_parse_rest(http_parse_switch(p, At(input, i), i), input, n)

http_parse_rest(r, input, n) ==
  IF r.kind = "return" THEN [parser |-> r.p, token |-> r.tok]
  ELSE IF r.kind = "break" /\ r.p.len >= HTTP_MAX_TOKEN_LENGTH /\ r.p.state # HTTP_BODY
  THEN hs_parse_error(r.p, HTTP_ERR_BAD_REQUEST)
  ELSE http_parse_from(http_parse_advance(r.p, r.i), input, n, r.i + 1)

\* http_parse: resumes at parser->start and returns one token, or HTTP_NONE at
\* the end of the n bytes.
http_parse(parser, input, n) == http_parse_from(parser, input, n, parser.start)

\* hs_parse_tokens on (parser, current token, token log): parse until HTTP_NONE
\* or the body token of a chunked request.
\* hs_parse_tokens_loop is the body of the do-while once http_parse has
\* returned r, and hs_parse_tokens_again its next turn, in which http_parse has
\* returned next.  A token returned in the first iteration of http_parse's loop
\* leaves parser->start where it was; when the parser is otherwise unchanged
\* too (the '\r' that ends the version) every further call returns the same
\* token and the do-while never ends: hung.
RECURSIVE hs_parse_tokens_loop(_, _, _, _, _)
RECURSIVE hs_parse_tokens_again(_, _, _, _, _)
hs_parse_tokens_loop(r, token, tokens, input, n) ==
  IF r.token.type = HTTP_NONE
  THEN [parser |-> r.parser, token |-> token, tokens |-> tokens, hung |-> FALSE]
  ELSE IF r.token.type = HTTP_BODY /\ r.token.len = HTTP_CHUNKED_LEN
  THEN [parser |-> r.parser, token |-> r.token, tokens |-> Append(tokens, r.token),
        hung |-> FALSE]
  ELSE hs_parse_tokens_again(http_parse(r.parser, input, n), r,
                             Append(tokens, r.token), input, n)

hs_parse_tokens_again(next, r, tokens, input, n) ==
  IF next = r
  THEN [parser |-> r.parser, token |-> r.token, tokens |-> tokens, hung |-> TRUE]
  ELSE hs_parse_tokens_loop(next, r.token, tokens, input, n)

hs_parse_tokens(parser, token, tokens, input, n) ==
  hs_parse_tokens_loop(http_parse(parser, input, n), token, tokens, input, n)

(***************************************************************************)
(* The chunk parser                                                        *)
(***************************************************************************)

http_gen_body_token(parser) ==
  [parser |-> [parser EXCEPT !.start = parser.token_start_index + parser.content_length,
                             !.len = parser.content_length,
                             !.state = HTTP_CHUNK_BODY_END],
   token |-> Token(parser.token_start_index, parser.content_length, HTTP_CHUNK_BODY)]

\* The value of a hexadecimal digit c, or -1.
HexDigit(c) ==
  IF c >= 65 /\ c <= 70 THEN c - 55
  ELSE IF c >= 97 /\ c <= 102 THEN c - 87
  ELSE IF c >= 48 /\ c <= 57 THEN c - ZERO
  ELSE -1

http_chunk_parse_size(p, c, i, remaining) ==
  IF c = SEMI THEN SwBreak([p EXCEPT !.state = HTTP_CHUNK_EXTN], i)
  ELSE IF c = LF
  THEN LET q == [p EXCEPT !.token_start_index = i + 1, !.len = 0]
       IN IF remaining >= p.content_length
          THEN SwToken(http_gen_body_token(q))
          ELSE SwBreak([q EXCEPT !.state = HTTP_CHUNK_BODY], i)
  ELSE IF c = CR THEN SwBreak(p, i)
  ELSE IF HexDigit(c) >= 0
  THEN SwBreak([p EXCEPT !.content_length = Mul16Add32(@, HexDigit(c))], i)
  ELSE SwBreak(p, i)

http_chunk_parse_extn(p, c, i, remaining) ==
  IF c = LF
  THEN LET q == [p EXCEPT !.token_start_index = i + 1]
       IN IF remaining >= p.content_length
          THEN SwToken(http_gen_body_token(q))
          ELSE SwBreak([q EXCEPT !.state = HTTP_CHUNK_BODY], i)
  ELSE SwBreak(p, i)

http_chunk_parse_body(p, c, i, remaining) ==
  IF remaining >= p.content_length
  THEN SwToken(http_gen_body_token(p))
  ELSE SwBreak(p, i)

http_chunk_parse_body_end(p, c, i, remaining) ==
  IF c = LF
  THEN SwBreak([p EXCEPT !.state = HTTP_CHUNK_SIZE, !.content_length = 0, !.len = 0,
                         !.token_start_index = i + 1], i)
  ELSE SwBreak(p, i)

http_chunk_parse_switch(p, c, i, remaining) ==
  CASE p.state = HTTP_CHUNK_SIZE -> http_chunk_parse_size(p, c, i, remaining)
    [] p.state = HTTP_CHUNK_EXTN -> http_chunk_parse_extn(p, c, i, remaining)
    [] p.state = HTTP_CHUNK_BODY -> http_chunk_parse_body(p, c, i, remaining)
    [] p.state = HTTP_CHUNK_BODY_END -> http_chunk_parse_body_end(p, c, i, remaining)
    [] OTHER -> SwBreak(p, i)

\* The for loop of http_chunk_parse.
RECURSIVE http_chunk_parse_from(_, _, _, _)
RECURSIVE http_chunk_parse_rest(_, _, _)
http_chunk_parse_from(p, input, n, i) ==
  IF i >= n THEN [parser |-> p, token |-> TokenNone]
  ELSE http_chunk_parse_rest(http_chunk_parse_switch(p, At(input, i), i, n - (i + 1)),
                             input, n)

http_chunk_parse_rest(r, input, n) ==
  IF r.kind = "return" THEN [parser |-> r.p, token |-> r.tok]
  ELSE http_chunk_parse_from(http_parse_advance(r.p, r.i), input, n, r.i + 1)

\* memcpy(buf + dst, buf + src, n).  When the two ranges overlap the result is
\* undefined: a build whose memcpy copies upwards leaves the bytes memmove would,
\* one that copies downwards reads bytes it has already overwritten.
RECURSIVE MemcpyDown(_, _, _, _)
MemcpyDown(buf, dst, src, n) ==
  IF n <= 0 THEN buf
  ELSE MemcpyDown(WriteAt(buf, dst + n - 1, <<At(buf, src + n - 1)>>, 0), dst, src, n - 1)

Memcpy(buf, dst, src, n, direction) ==
  IF n <= 0 THEN buf
  ELSE IF direction = "down" THEN MemcpyDown(buf, dst, src, n)
  ELSE WriteAt(buf, dst, [j \in 1..n |-> At(buf, src + j - 1)], 0)

\* The part of http_chunk_parse after the loop, reached when no token was
\* emitted: the token in progress is moved to the start of the body.  bytes is
\* request->bytes and n the value of it the function was called with.
http_chunk_parse_compact(p, buf, bytes, n, direction) ==
  IF p.token_start_index # p.body_start_index
  THEN LET start == p.body_start_index + p.len - 1
           tsi == p.token_start_index
       IN [parser |-> [p EXCEPT !.start = start, !.token_start_index = p.body_start_index],
           bytes |-> start,
           token |-> TokenNone,
           buf |-> IF p.len > 1
                   THEN Memcpy(buf, p.body_start_index, tsi, n - tsi, direction)
                   ELSE buf]
  ELSE [parser |-> p, bytes |-> bytes, token |-> TokenNone, buf |-> buf]

\* http_chunk_parse(request, request->buf, request->bytes) on the fields of the
\* request it reads and writes.
http_chunk_parse_end(r, buf, bytes, direction) ==
  IF r.token.type # HTTP_NONE
  THEN [parser |-> r.parser, token |-> r.token, buf |-> buf, bytes |-> bytes]
  ELSE http_chunk_parse_compact(r.parser, buf, bytes, bytes, direction)

http_chunk_parse(parser, buf, bytes, direction) ==
  http_chunk_parse_end(http_chunk_parse_from(parser, buf, bytes, parser.start),
                       buf, bytes, direction)

http_parse_start_chunk_mode(parser) ==
  [parser EXCEPT !.token_start_index = parser.start, !.content_length = 0,
                 !.state = HTTP_CHUNK_SIZE]

(***************************************************************************)
(* Sessions.  A "world" w is what one call into the engine can read and    *)
(* write: the server's memused (m), errno, one session struct (r), its     *)
(* socket as the kernel sees it (k), the host application's state for that *)
(* connection (h), history kept for the properties (g), and the properties *)
(* of the build that decide what undefined behaviour does (build).  ctx,   *)
(* ret and tok carry a callee's results back to its caller.                *)
(***************************************************************************)

\* http session states
HTTP_SESSION_INIT == 0
HTTP_SESSION_READ_HEADERS == 1
HTTP_SESSION_READ_BODY == 2
HTTP_SESSION_WRITE == 3
HTTP_SESSION_READ_CHUNK == 4
HTTP_SESSION_NOP == 5

\* http session flags (the bits of request->flags, as a set); HTTP_KEEP_ALIVE
\* is the directive of the public header, used as bit 0x1.
HTTP_KEEP_ALIVE == "HTTP_KEEP_ALIVE"
HTTP_CLOSE == "HTTP_CLOSE"
HTTP_RESPONSE_READY == "HTTP_RESPONSE_READY"
HTTP_AUTOMATIC == "HTTP_AUTOMATIC"
HTTP_RESPONSE_PAUSED == "HTTP_RESPONSE_PAUSED"
HTTP_CHUNKED_RESPONSE == "HTTP_CHUNKED_RESPONSE"

\* http version indicators
HTTP_1_0 == 0
HTTP_1_1 == 1

STR_HTTP11 == <<72, 84, 84, 80, 47, 49, 46, 49, 32>>
STR_DATE == <<13, 10, 68, 97, 116, 101, 58, 32>>
STR_CRLF == <<13, 10>>
STR_COLON_SP == <<58, 32>>
STR_CONTENT_LENGTH == <<67, 111, 110, 116, 101, 110, 116, 45, 76, 101, 110, 103, 116, 104, 58, 32>>
STR_CONNECTION == <<67, 111, 110, 110, 101, 99, 116, 105, 111, 110>>
STR_KEEP_ALIVE == <<107, 101, 101, 112, 45, 97, 108, 105, 118, 101>>
STR_CLOSE == <<99, 108, 111, 115, 101>>
STR_CONTENT_TYPE == <<67, 111, 110, 116, 101, 110, 116, 45, 84, 121, 112, 101>>
STR_TEXT_PLAIN == <<116, 101, 120, 116, 47, 112, 108, 97, 105, 110>>
STR_TRANSFER_ENCODING == <<84, 114, 97, 110, 115, 102, 101, 114, 45, 69, 110, 99, 111, 100, 105, 110, 103>>
STR_CHUNKED == <<99, 104, 117, 110, 107, 101, 100>>
STR_ZERO_CRLF == <<48, 13, 10>>
MSG_503 == <<83, 101, 114, 118, 105, 99, 101, 32, 85, 110, 97, 118, 97, 105, 108, 97, 98, 108, 101>>
MSG_400 == <<66, 97, 100, 32, 82, 101, 113, 117, 101, 115, 116>>
MSG_413 == <<80, 97, 121, 108, 111, 97, 100, 32, 84, 111, 111, 32, 76, 97, 114, 103, 101>>
ServerDate == <<84, 104, 117, 32, 74, 97, 110, 32, 32, 49, 32, 48, 48, 58, 48, 48, 58, 48, 48, 32, 49, 57, 55, 48>>

\* The number of entries of the table hs_status_text: the literal that ends the
\* row of 500..509 has no comma behind it and is glued to the next one.
HS_STATUS_TEXT_LEN == 599

\* hs_status_text[status] for 0 <= status < HS_STATUS_TEXT_LEN.
hs_status_text(status) ==
  CASE status = 100 -> <<67, 111, 110, 116, 105, 110, 117, 101>>  \* Continue
    [] status = 101 -> <<83, 119, 105, 116, 99, 104, 105, 110, 103, 32, 80, 114, 111, 116, 111, 99, 111, 108, 115>>  \* Switching Protocols
    [] status = 200 -> <<79, 75>>  \* OK
    [] status = 201 -> <<67, 114, 101, 97, 116, 101, 100>>  \* Created
    [] status = 202 -> <<65, 99, 99, 101, 112, 116, 101, 100>>  \* Accepted
    [] status = 203 -> <<78, 111, 110, 45, 65, 117, 116, 104, 111, 114, 105, 116, 97, 116, 105, 118, 101, 32, 73, 110, 102, 111, 114, 109, 97, 116, 105, 111, 110>>  \* Non-Authoritative Information
    [] status = 204 -> <<78, 111, 32, 67, 111, 110, 116, 101, 110, 116>>  \* No Content
    [] status = 205 -> <<82, 101, 115, 101, 116, 32, 67, 111, 110, 116, 101, 110, 116>>  \* Reset Content
    [] status = 206 -> <<80, 97, 114, 116, 105, 97, 108, 32, 67, 111, 110, 116, 101, 110, 116>>  \* Partial Content
    [] status = 300 -> <<77, 117, 108, 116, 105, 112, 108, 101, 32, 67, 104, 111, 105, 99, 101, 115>>  \* Multiple Choices
    [] status = 301 -> <<77, 111, 118, 101, 100, 32, 80, 101, 114, 109, 97, 110, 101, 110, 116, 108, 121>>  \* Moved Permanently
    [] status = 302 -> <<70, 111, 117, 110, 100>>  \* Found
    [] status = 303 -> <<83, 101, 101, 32, 79, 116, 104, 101, 114>>  \* See Other
    [] status = 304 -> <<78, 111, 116, 32, 77, 111, 100, 105, 102, 105, 101, 100>>  \* Not Modified
    [] status = 305 -> <<85, 115, 101, 32, 80, 114, 111, 120, 121>>  \* Use Proxy
    [] status = 307 -> <<84, 101, 109, 112, 111, 114, 97, 114, 121, 32, 82, 101, 100, 105, 114, 101, 99, 116>>  \* Temporary Redirect
    [] status = 400 -> <<66, 97, 100, 32, 82, 101, 113, 117, 101, 115, 116>>  \* Bad Request
    [] status = 401 -> <<85, 110, 97, 117, 116, 104, 111, 114, 105, 122, 101, 100>>  \* Unauthorized
    [] status = 402 -> <<80, 97, 121, 109, 101, 110, 116, 32, 82, 101, 113, 117, 105, 114, 101, 100>>  \* Payment Required
    [] status = 403 -> <<70, 111, 114, 98, 105, 100, 100, 101, 110>>  \* Forbidden
    [] status = 404 -> <<78, 111, 116, 32, 70, 111, 117, 110, 100>>  \* Not Found
    [] status = 405 -> <<77, 101, 116, 104, 111, 100, 32, 78, 111, 116, 32, 65, 108, 108, 111, 119, 101, 100>>  \* Method Not Allowed
    [] status = 406 -> <<78, 111, 116, 32, 65, 99, 99, 101, 112, 116, 97, 98, 108, 101>>  \* Not Acceptable
    [] status = 407 -> <<80, 114, 111, 120, 121, 32, 65, 117, 116, 104, 101, 110, 116, 105, 99, 97, 116, 105, 111, 110, 32, 82, 101, 113, 117, 105, 114, 101, 100>>  \* Proxy Authentication Required
    [] status = 408 -> <<82, 101, 113, 117, 101, 115, 116, 32, 84, 105, 109, 101, 111, 117, 116>>  \* Request Timeout
    [] status = 409 -> <<67, 111, 110, 102, 108, 105, 99, 116>>  \* Conflict
    [] status = 410 -> <<71, 111, 110, 101>>  \* Gone
    [] status = 411 -> <<76, 101, 110, 103, 116, 104, 32, 82, 101, 113, 117, 105, 114, 101, 100>>  \* Length Required
    [] status = 413 -> <<80, 97, 121, 108, 111, 97, 100, 32, 84, 111, 111, 32, 76, 97, 114, 103, 101>>  \* Payload Too Large
    [] status = 500 -> <<73, 110, 116, 101, 114, 110, 97, 108, 32, 83, 101, 114, 118, 101, 114, 32, 69, 114, 114, 111, 114>>  \* Internal Server Error
    [] status = 501 -> <<78, 111, 116, 32, 73, 109, 112, 108, 101, 109, 101, 110, 116, 101, 100>>  \* Not Implemented
    [] status = 502 -> <<66, 97, 100, 32, 71, 97, 116, 101, 119, 97, 121>>  \* Bad Gateway
    [] status = 503 -> <<83, 101, 114, 118, 105, 99, 101, 32, 85, 110, 97, 118, 97, 105, 108, 97, 98, 108, 101>>  \* Service Unavailable
    [] status = 504 -> <<71, 97, 116, 101, 119, 97, 121, 32, 84, 105, 109, 101, 111, 117, 116>>  \* Gateway Timeout
    [] OTHER -> << >>

\* The session that hs_accept_connections callocs.
SessionNew ==
  [alive |-> TRUE, state |-> HTTP_SESSION_INIT, flags |-> {}, parser |-> ParserInit,
   buf_null |-> TRUE, buf |-> << >>, bytes |-> 0, written |-> 0, capacity |-> 0,
   timeout |-> HTTP_REQUEST_TIMEOUT, token |-> Token(0, 0, 0),
   tokens_null |-> TRUE, tokens |-> << >>, chunk_cb |-> "NULL"]

CtxNone == [buf |-> << >>, capacity |-> 0, size |-> 0]

hs_init_session(r) ==
  [r EXCEPT !.flags = {HTTP_AUTOMATIC}, !.parser = ParserInit, !.bytes = 0,
            !.written = 0, !.buf_null = TRUE, !.buf = << >>, !.token = TokenNone]

hs_parsing_headers(r) == r.token.type # HTTP_BODY

hs_reading_body(r) ==
  IF r.token.type # HTTP_BODY \/ r.token.len = 0 \/ r.token.len = HTTP_CHUNKED_LEN
  THEN FALSE
  ELSE r.bytes < r.token.index + r.token.len

\* hs_reset_timeout without its assignment
hs_reset_timeout_none(w, time) == w

hs_reset_timeout(w, time) == [w EXCEPT !.r.timeout = time]

hs_free_buffer(w) ==
  IF ~w.r.buf_null
  THEN [w EXCEPT !.m = @ - w.r.capacity, !.r.buf_null = TRUE, !.r.buf = << >>,
                 !.r.tokens_null = TRUE, !.r.tokens = << >>]
  ELSE w

\* epoll_ctl(DEL) of the socket and the timer, close(timerfd).
hs_delete_events(w) == [w EXCEPT !.k.interest = "NONE"]

\* EPOLL_CTL_MOD of the socket to EPOLLOUT | EPOLLET.
hs_add_write_event(w) == [w EXCEPT !.k.interest = "OUT", !.k.out_edge = w.k.space > 0]

\* hs_end_session that leaves the session's buffer allocated.
hs_end_session_leak(w) ==
  [hs_delete_events(w) EXCEPT !.k.closed = TRUE, !.r.alive = FALSE, !.g.ends = @ + 1]

hs_end_session(w) ==
  [hs_free_buffer([hs_delete_events(w) EXCEPT !.k.closed = TRUE])
     EXCEPT !.r.alive = FALSE, !.g.ends = @ + 1]

\* read(socket, buf + bytes, capacity - bytes): ret is what it returns.  It
\* takes what the kernel holds, up to the room given; nothing there is end of
\* file after the peer's FIN and EAGAIN before it.  The room is a size_t: with
\* bytes beyond capacity it is huge, and what is read lands behind the buffer.
\* A FIN on its way (eof_soon) arrives right after the read that found nothing,
\* so that the next read, be it in the same callback, finds end of file.
ReadSocket(w) ==
  LET room == w.r.capacity - w.r.bytes
      n == IF room < 0 THEN Len(w.k.rcv) ELSE Min(Len(w.k.rcv), room)
  IN IF room = 0 THEN [w EXCEPT !.ret = 0]
     ELSE IF n > 0
     THEN [w EXCEPT !.r.buf = WriteAt(@, w.r.bytes, SubSeq(w.k.rcv, 1, n), 0),
                    !.k.rcv = SubSeq(@, n + 1, Len(@)), !.ret = n]
     ELSE IF w.k.eof THEN [w EXCEPT !.ret = 0]
     ELSE [w EXCEPT !.ret = -1, !.errno = "EAGAIN",
                    !.k.eof = w.k.eof_soon, !.k.eof_soon = FALSE,
                    !.k.in_edge = @ \/ w.k.eof_soon]

\* The do-while of hs_read_client_socket; hs_read_loop_rest is its body after
\* the read.
RECURSIVE hs_read_loop(_)
RECURSIVE hs_read_loop_rest(_)
hs_read_loop(w) == hs_read_loop_rest(ReadSocket(w))

hs_read_loop_grow(w) ==
  IF w.r.bytes = w.r.capacity
  THEN [w EXCEPT !.m = @ - w.r.capacity + w.r.capacity * 2, !.r.capacity = @ * 2]
  ELSE w

hs_read_loop_rest(w) ==
  IF w.ret > 0
  THEN hs_read_loop(hs_read_loop_grow([w EXCEPT !.r.bytes = @ + w.ret]))
  ELSE [hs_read_loop_grow(w) EXCEPT !.ret = IF w.ret = 0 THEN 0 ELSE 1]

hs_read_client_socket(w) ==
  hs_read_loop(
    IF w.r.buf_null
    THEN [w EXCEPT !.m = @ + HTTP_REQUEST_BUF_SIZE, !.r.buf_null = FALSE,
                   !.r.buf = << >>, !.r.capacity = HTTP_REQUEST_BUF_SIZE,
                   !.r.tokens_null = FALSE, !.r.tokens = << >>]
    ELSE w)

\* The n bytes at buf + a; those that nothing has stored yet are whatever the
\* heap holds there.
HeapBytes(buf, a, n) ==
  [j \in 1..n |-> IF a + j <= Len(buf) THEN buf[a + j] ELSE INDETERMINATE]

\* write(socket, buf + written, bytes - written): ret is what it returns.  It
\* takes what the kernel's send buffer has room for.
WriteSocket(w) ==
  LET rem == w.r.bytes - w.r.written
      n == Min(w.k.space, rem)
  IN IF w.k.gone THEN [w EXCEPT !.ret = -1, !.errno = "EPIPE"]
     ELSE IF rem <= 0 THEN [w EXCEPT !.ret = 0]
     ELSE IF n = 0 THEN [w EXCEPT !.ret = -1, !.errno = "EAGAIN"]
     ELSE [w EXCEPT !.ret = n, !.k.space = @ - n,
                    !.k.out = @ \o HeapBytes(w.r.buf, w.r.written, n)]

\* hs_write_client_socket after the write; errno keeps the value the last
\* failed call left in it.
hs_write_client_socket_rest(w) ==
  [w EXCEPT !.r.written = IF w.ret > 0 THEN @ + w.ret ELSE @,
            !.ret = IF w.errno = "EPIPE" THEN 0 ELSE 1]

hs_write_client_socket(w) == hs_write_client_socket_rest(WriteSocket(w))

(***************************************************************************)
(* Request views                                                           *)
(***************************************************************************)

\* The first token of the given type: http_get_token_string without the
\* pointer arithmetic.  found = FALSE is the { 0, 0 } string.
RECURSIVE FirstTokenFrom(_, _, _)
FirstTokenFrom(tokens, token_type, j) ==
  IF j > Len(tokens) THEN [found |-> FALSE, token |-> TokenNone]
  ELSE IF tokens[j].type = token_type THEN [found |-> TRUE, token |-> tokens[j]]
  ELSE FirstTokenFrom(tokens, token_type, j + 1)

http_get_token_string(r, token_type) ==
  IF r.tokens_null THEN [found |-> FALSE, token |-> TokenNone]
  ELSE FirstTokenFrom(r.tokens, token_type, 1)

ToLower(c) == IF c >= 65 /\ c <= 90 THEN c + 32 ELSE c

\* hs_case_insensitive_cmp(buf + index, b, len)
hs_case_insensitive_cmp(buf, index, b, len) ==
  \A j \in 0..(len - 1) : ToLower(At(buf, index + j)) = ToLower(At(b, j))

\* http_request_header: the token after the first header key that matches, or
\* the empty string.
RECURSIVE HeaderFrom(_, _, _)
HeaderFrom(r, key, j) ==
  IF j > Len(r.tokens) THEN Token(0, 0, HTTP_NONE)
  ELSE IF r.tokens[j].type = HTTP_HEADER_KEY /\ r.tokens[j].len = Len(key)
          /\ hs_case_insensitive_cmp(r.buf, r.tokens[j].index, key, Len(key))
  THEN IF j + 1 <= Len(r.tokens) THEN r.tokens[j + 1]
       ELSE Token(0, HS_UNINIT, HTTP_NONE)
  ELSE HeaderFrom(r, key, j + 1)

http_request_header(r, key) == HeaderFrom(r, key, 1)

\* A length as the code reads it: one the code never set is whatever the
\* build left there.
ReadLen(len, build) == IF len = HS_UNINIT THEN build.uninit ELSE len

\* hs_auto_detect_keep_alive with the version string ver and the Connection
\* header str that it looks up
hs_auto_detect_keep_alive_with(w, ver, str) ==
  IF ~ver.found THEN w
  ELSE IF (ReadLen(str.len, w.build) = 5
           /\ hs_case_insensitive_cmp(w.r.buf, str.index, STR_CLOSE, 5))
          \/ (ReadLen(str.len, w.build) = 0
              /\ (IF At(w.r.buf, ver.token.index + ver.token.len - 1) = 49
                  THEN HTTP_1_1 ELSE HTTP_1_0) = HTTP_1_0)
  THEN [w EXCEPT !.r.flags = @ \ {HTTP_KEEP_ALIVE}]
  ELSE [w EXCEPT !.r.flags = @ \cup {HTTP_KEEP_ALIVE}]

hs_auto_detect_keep_alive(w) ==
  hs_auto_detect_keep_alive_with(w, http_get_token_string(w.r, HTTP_VERSION),
                                 http_request_header(w.r, STR_CONNECTION))

\* http_request_connection that leaves automatic detection on.
http_request_connection_auto(w, directive) ==
  IF directive = HTTP_KEEP_ALIVE
  THEN [w EXCEPT !.r.flags = @ \cup {HTTP_KEEP_ALIVE}]
  ELSE IF directive = HTTP_CLOSE
  THEN [w EXCEPT !.r.flags = @ \ {HTTP_KEEP_ALIVE}]
  ELSE w

http_request_connection(w, directive) ==
  IF directive = HTTP_KEEP_ALIVE
  THEN [w EXCEPT !.r.flags = (@ \ {HTTP_AUTOMATIC}) \cup {HTTP_KEEP_ALIVE}]
  ELSE IF directive = HTTP_CLOSE
  THEN [w EXCEPT !.r.flags = @ \ {HTTP_AUTOMATIC, HTTP_KEEP_ALIVE}]
  ELSE w

\* http_request_body(request)
http_request_body(r) == http_get_token_string(r, HTTP_BODY)

http_request_method(r) == http_get_token_string(r, HTTP_METHOD)

http_request_target(r) == http_get_token_string(r, HTTP_TARGET)

\* The bytes of the string str of the request's buffer.
StringBytes(r, str) ==
  IF str.found THEN Slice(r.buf, str.token.index, str.token.len) ELSE << >>

\* The bytes of the current chunk as the chunk callback sees them.
http_request_chunk(r) == Slice(r.buf, r.token.index, r.token.len)

(***************************************************************************)
(* Responses                                                               *)
(***************************************************************************)

http_response_init ==
  [headers |-> << >>, body_null |-> TRUE, body |-> << >>, content_length |-> 0,
   status |-> 200]

\* The header list is prepended to.
http_response_header(response, key, value) ==
  [response EXCEPT !.headers = <<[key |-> key, value |-> value]>> \o @]

\* http_response_status that stores any value.
http_response_status_any(response, status) == [response EXCEPT !.status = status]

http_response_status(response, status) ==
  [response EXCEPT !.status = IF status > 599 \/ status < 100 THEN 500 ELSE status]

http_response_body(response, body, length) ==
  [response EXCEPT !.body_null = FALSE, !.body = body, !.content_length = length]

\* printf's %d and %X of a number that is not negative.
RECURSIVE Digits(_, _)
Digits(n, base) ==
  LET d == n % base
      c == IF d < 10 THEN ZERO + d ELSE 55 + d
  IN IF n < base THEN <<c>> ELSE Digits(n \div base, base) \o <<c>>

Take(s, n) == IF n <= 0 THEN << >> ELSE SubSeq(s, 1, Min(n, Len(s)))

grwprintf_init(w, capacity) ==
  [w EXCEPT !.m = @ + capacity,
            !.ctx = [buf |-> << >>, capacity |-> capacity, size |-> 0]]

\* grwmemcpy whose growth is not added to memused.
grwmemcpy_uncounted(w, src, size) ==
  [w EXCEPT !.ctx = [buf |-> WriteAt(w.ctx.buf, w.ctx.size, Take(src, size),
                                     INDETERMINATE),
                     capacity |-> IF w.ctx.size + size > w.ctx.capacity
                                  THEN w.ctx.size + size ELSE w.ctx.capacity,
                     size |-> w.ctx.size + size]]

grwmemcpy(w, src, size) ==
  [w EXCEPT !.m = IF w.ctx.size + size > w.ctx.capacity
                  THEN @ - w.ctx.capacity + (w.ctx.size + size) ELSE @,
            !.ctx = [buf |-> WriteAt(w.ctx.buf, w.ctx.size, Take(src, size),
                                     INDETERMINATE),
                     capacity |-> IF w.ctx.size + size > w.ctx.capacity
                                  THEN w.ctx.size + size ELSE w.ctx.capacity,
                     size |-> w.ctx.size + size]]

\* vsnprintf(buf + size, room, ...) of text: as much of it as fits before the
\* terminating NUL.
Vsnprintf(buf, size, room, text) ==
  IF room <= 0 THEN buf
  ELSE WriteAt(buf, size, Take(text, room - 1) \o <<0>>, INDETERMINATE)

RECURSIVE GrowCapacity(_, _)
GrowCapacity(capacity, need) ==
  IF need > capacity THEN GrowCapacity(capacity * 2, need) ELSE capacity

\* grwprintf of a format that expands to text.  When the buffer has to grow the
\* text is formatted a second time from the same va_list and both lengths are
\* added to size; with conversions in the format the second pass reads
\* arguments that were never passed (has_args), and what it prints is whatever
\* the build finds there.
grwprintf_grow(w, text, again, first, cap) ==
  [w EXCEPT !.m = @ - w.ctx.capacity + cap,
            !.ctx = [buf |-> Vsnprintf(first, w.ctx.size, cap - w.ctx.size, again),
                     capacity |-> cap,
                     size |-> w.ctx.size + Len(text) + Len(again)]]

grwprintf_first(w, text, has_args, first) ==
  IF Len(text) + w.ctx.size > w.ctx.capacity
  THEN grwprintf_grow(w, text,
                      IF has_args THEN [j \in 1..w.build.va_len |-> INDETERMINATE]
                      ELSE text,
                      first, GrowCapacity(w.ctx.capacity, Len(text) + w.ctx.size))
  ELSE [w EXCEPT !.ctx = [buf |-> first, capacity |-> w.ctx.capacity,
                          size |-> w.ctx.size + Len(text)]]

grwprintf(w, text, has_args) ==
  grwprintf_first(w, text, has_args,
                  Vsnprintf(w.ctx.buf, w.ctx.size, w.ctx.capacity - w.ctx.size, text))

RECURSIVE http_buffer_header_list(_, _)
http_buffer_header_list(w, headers) ==
  IF headers = << >> THEN w
  ELSE http_buffer_header_list(
         grwprintf(w, Head(headers).key \o STR_COLON_SP \o Head(headers).value \o STR_CRLF,
                   TRUE),
         Tail(headers))

http_buffer_content_length(w, response) ==
  IF HTTP_CHUNKED_RESPONSE \notin w.r.flags
  THEN grwprintf(w, STR_CONTENT_LENGTH \o Digits(response.content_length, 10)
                      \o STR_CRLF, TRUE)
  ELSE w

http_buffer_headers(w, response) ==
  grwprintf(
    http_buffer_content_length(http_buffer_header_list(w, response.headers), response),
    STR_CRLF, FALSE)

\* http_respond_headers once the keep-alive flag is settled: the Connection
\* header, the status line and the headers.  g.resps records the status and the
\* Connection header of every header block the engine builds.
http_respond_headers_write(w, response, automatic) ==
  [http_buffer_headers(
     grwprintf(w, STR_HTTP11 \o Digits(response.status, 10) \o <<SP>>
                    \o hs_status_text(response.status) \o STR_DATE
                    \o Take(ServerDate, 24) \o STR_CRLF, TRUE),
     http_response_header(response, STR_CONNECTION,
                          IF HTTP_KEEP_ALIVE \in w.r.flags THEN STR_KEEP_ALIVE
                          ELSE STR_CLOSE))
   EXCEPT !.g.resps = Append(@, [status |-> response.status,
                                 keep |-> HTTP_KEEP_ALIVE \in w.r.flags,
                                 auto |-> automatic, by |-> w.origin])]

http_respond_headers(w, response) ==
  http_respond_headers_write(
    IF HTTP_AUTOMATIC \in w.r.flags THEN hs_auto_detect_keep_alive(w) ELSE w,
    response, HTTP_AUTOMATIC \in w.r.flags)

(***************************************************************************)
(* The session state machine.  The functions below call each other in a    *)
(* cycle (http_session -> handler -> http_respond -> http_end_response ->  *)
(* http_session ...).  A call that is the last thing its caller does, or   *)
(* that the caller follows with one more call, is written as a push on     *)
(* w.todo, the calls still to be made, first one first; Run makes them.    *)
(***************************************************************************)

Call(f, a) == [f |-> f, a |-> a]

Push(w, calls) == [w EXCEPT !.todo = calls \o @]

\* The engine touching a session it has already freed.
UseAfterFree(w) == [w EXCEPT !.g.uaf = TRUE]

\* http_end_response after hs_free_buffer: the print buffer becomes the
\* session's buffer.
\* http_end_response that leaves a paused session as it is.
http_end_response_swap_idle(w) ==
  [w EXCEPT !.r.buf_null = FALSE, !.r.buf = w.ctx.buf, !.r.written = 0,
            !.r.bytes = w.ctx.size, !.r.capacity = w.ctx.capacity,
            !.r.state = HTTP_SESSION_WRITE,
            !.r.flags = @ \cup {HTTP_RESPONSE_READY},
            !.g.handed = @ + w.ctx.size, !.g.fresh = TRUE, !.ctx = CtxNone]

http_end_response_swap(w) ==
  [w EXCEPT !.r.buf_null = FALSE, !.r.buf = w.ctx.buf, !.r.written = 0,
            !.r.bytes = w.ctx.size, !.r.capacity = w.ctx.capacity,
            !.r.state = HTTP_SESSION_WRITE,
            !.r.flags = (@ \cup {HTTP_RESPONSE_READY}) \ {HTTP_RESPONSE_PAUSED},
            !.g.handed = @ + w.ctx.size, !.g.fresh = TRUE, !.ctx = CtxNone,
            !.todo = IF HTTP_RESPONSE_PAUSED \in w.r.flags
                     THEN <<Call("http_session", "")>> \o @ ELSE @]

http_end_response(w) == http_end_response_swap(hs_free_buffer(w))

http_respond_body(w, response) ==
  IF ~response.body_null
  THEN grwmemcpy(w, response.body, response.content_length)
  ELSE w

http_respond(w, response) ==
  http_end_response(
    http_respond_body(
      http_respond_headers(grwprintf_init(w, HTTP_RESPONSE_BUF_SIZE), response),
      response))

http_respond_chunk_headers(w, response) ==
  IF HTTP_CHUNKED_RESPONSE \notin w.r.flags
  THEN http_respond_headers(
         [w EXCEPT !.r.flags = @ \cup {HTTP_CHUNKED_RESPONSE}],
         http_response_header(response, STR_TRANSFER_ENCODING, STR_CHUNKED))
  ELSE w

http_respond_chunk(w, response, cb) ==
  http_end_response(
    grwprintf(
      grwmemcpy(
        grwprintf(
          [http_respond_chunk_headers(grwprintf_init(w, HTTP_RESPONSE_BUF_SIZE), response)
             EXCEPT !.r.chunk_cb = cb],
          Digits(response.content_length, 16) \o STR_CRLF, TRUE),
        response.body, response.content_length),
      STR_CRLF, FALSE))

http_respond_chunk_end_flag(w) ==
  [w EXCEPT !.r.flags = @ \ {HTTP_CHUNKED_RESPONSE}]

http_respond_chunk_end(w, response) ==
  http_end_response(
    http_respond_chunk_end_flag(
      grwprintf(
        http_buffer_headers(
          grwprintf(grwprintf_init(w, HTTP_RESPONSE_BUF_SIZE), STR_ZERO_CRLF, FALSE),
          response),
        STR_CRLF, FALSE)))

http_request_free_buffer(w) == hs_free_buffer(w)

hs_exec_response_handler(w, handler) ==
  Push(w, <<Call("handler", handler), Call("hs_exec_response_handler:after", "")>>)

\* hs_exec_response_handler once the handler has returned
hs_exec_response_handler_after(w) ==
  IF ~w.r.alive THEN UseAfterFree(w)
  ELSE IF HTTP_RESPONSE_READY \in w.r.flags
  THEN Push(w, <<Call("hs_write_response", "")>>)
  ELSE [w EXCEPT !.r.flags = @ \cup {HTTP_RESPONSE_PAUSED}]

\* The branch of hs_write_response taken when a chunk has been written.
hs_write_response_chunk(w) ==
  hs_exec_response_handler(
    [hs_free_buffer(w) EXCEPT !.r.flags = @ \ {HTTP_RESPONSE_READY}], w.r.chunk_cb)

\* hs_write_response that takes a partial write for a complete one.
hs_write_response_rest_eager(w) ==
  IF w.ret = 0 THEN hs_end_session(w)
  ELSE IF HTTP_CHUNKED_RESPONSE \in w.r.flags
  THEN hs_write_response_chunk([w EXCEPT !.r.state = HTTP_SESSION_WRITE,
                                         !.r.timeout = HTTP_REQUEST_TIMEOUT])
  ELSE IF HTTP_KEEP_ALIVE \in w.r.flags
  THEN [hs_free_buffer(w) EXCEPT !.r.state = HTTP_SESSION_INIT,
                                 !.r.timeout = HTTP_KEEP_ALIVE_TIMEOUT]
  ELSE hs_end_session(w)

\* hs_write_response after hs_write_client_socket
hs_write_response_rest(w) ==
  IF w.ret = 0 THEN hs_end_session(w)
  ELSE IF w.r.written # w.r.bytes
  THEN [hs_add_write_event(w) EXCEPT !.r.state = HTTP_SESSION_WRITE,
                                     !.r.timeout = HTTP_REQUEST_TIMEOUT]
  ELSE IF HTTP_CHUNKED_RESPONSE \in w.r.flags
  THEN hs_write_response_chunk([w EXCEPT !.r.state = HTTP_SESSION_WRITE,
                                         !.r.timeout = HTTP_REQUEST_TIMEOUT])
  ELSE IF HTTP_KEEP_ALIVE \in w.r.flags
  THEN [hs_free_buffer(w) EXCEPT !.r.state = HTTP_SESSION_INIT,
                                 !.r.timeout = HTTP_KEEP_ALIVE_TIMEOUT]
  ELSE hs_end_session(w)

\* The response buffer enters hs_write_response: for the first time (fresh), or
\* once more in the callback that has already brought it there (twice).
WriteBegins(w) ==
  [w EXCEPT !.g.begun = IF w.g.fresh THEN @ + 1 ELSE @,
            !.g.twice = @ \/ (w.wrote /\ ~w.g.fresh),
            !.g.fresh = FALSE, !.wrote = TRUE]

hs_write_response(w) ==
  IF ~w.r.alive THEN UseAfterFree(w)
  ELSE hs_write_response_rest(hs_write_client_socket(WriteBegins(w)))

hs_error_response(w, code, message) ==
  Push([w EXCEPT !.origin = "engine"],
       <<Call("http_respond",
              http_response_body(
                http_response_header(
                  http_response_status(http_response_init, code),
                  STR_CONTENT_TYPE, STR_TEXT_PLAIN),
                message, Len(message))),
         Call("hs_write_response", "")>>)

\* request->token = token and the call of the chunk callback, or what is done
\* instead (other) when the token is not a chunk body
ChunkToken(w, cp, state, other) ==
  IF cp.token.type = HTTP_CHUNK_BODY
  THEN Push([w EXCEPT !.r.parser = cp.parser, !.r.buf = cp.buf, !.r.bytes = cp.bytes,
                      !.r.token = cp.token, !.r.state = state],
            <<Call("handler", w.r.chunk_cb)>>)
  ELSE Push([w EXCEPT !.r.parser = cp.parser, !.r.buf = cp.buf, !.r.bytes = cp.bytes],
            other)

\* http_chunk_parse(request, request->buf, request->bytes)
SessionChunkParse(w) ==
  http_chunk_parse(w.r.parser, w.r.buf, w.r.bytes, w.build.memcpy)

http_request_read_chunk(w, chunk_cb) ==
  ChunkToken([w EXCEPT !.r.chunk_cb = chunk_cb], SessionChunkParse(w), w.r.state,
             <<Call("http_request_read_chunk:read", "")>>)

\* The else branch of http_request_read_chunk after hs_read_client_socket
http_request_read_chunk_parse(w) ==
  IF w.ret = 0 THEN hs_end_session(w)
  ELSE ChunkToken(w, SessionChunkParse(w), w.r.state,
                  <<Call("state", HTTP_SESSION_READ_CHUNK)>>)

http_request_read_chunk_read(w) ==
  http_request_read_chunk_parse(hs_read_client_socket(w))

\* case HTTP_SESSION_READ_HEADERS of http_session, after hs_parse_tokens
http_session_parsed(w) ==
  IF w.r.token.type = HTTP_PARSE_ERROR
  THEN IF w.r.token.index = HTTP_ERR_BAD_REQUEST
       THEN hs_error_response(w, 400, MSG_400)
       ELSE IF w.r.token.index = HTTP_ERR_PAYLOAD_TOO_LARGE
       THEN hs_error_response(w, 413, MSG_413)
       ELSE w
  ELSE IF hs_reading_body(w.r)
  THEN [w EXCEPT !.r.state = HTTP_SESSION_READ_BODY]
  ELSE IF ~hs_parsing_headers(w.r)
  THEN hs_exec_response_handler(
         IF HS_PF_CHUNKED \in w.r.parser.flags
         THEN [w EXCEPT !.r.state = HTTP_SESSION_NOP,
                        !.r.parser = http_parse_start_chunk_mode(@)]
         ELSE w,
         "request_handler")
  ELSE w

\* A callback that never returns: the server handles no further event.
Hang(w) == [w EXCEPT !.g.crash = TRUE, !.todo = << >>]

\* hs_parse_tokens(request) and what http_session does with its tokens.
SessionParseTokens(w, pt) ==
  IF pt.hung THEN Hang(w)
  ELSE http_session_parsed(
         [w EXCEPT !.r.parser = pt.parser, !.r.token = pt.token, !.r.tokens = pt.tokens])

\* case HTTP_SESSION_READ_HEADERS of http_session, after hs_read_client_socket
http_session_headers_read(w) ==
  IF w.ret = 0 THEN hs_end_session(w)
  ELSE SessionParseTokens(
         hs_reset_timeout(w, HTTP_REQUEST_TIMEOUT),
         hs_parse_tokens(w.r.parser, w.r.token, w.r.tokens, w.r.buf, w.r.bytes))

\* case HTTP_SESSION_READ_BODY of http_session, after hs_read_client_socket
http_session_body_read(w) ==
  IF w.ret = 0 THEN hs_end_session(w)
  ELSE IF ~hs_reading_body(w.r)
  THEN hs_exec_response_handler(hs_reset_timeout(w, HTTP_REQUEST_TIMEOUT),
                                "request_handler")
  ELSE hs_reset_timeout(w, HTTP_REQUEST_TIMEOUT)

\* case HTTP_SESSION_READ_CHUNK of http_session, after hs_read_client_socket
http_session_chunk_read(w) ==
  IF w.ret = 0 THEN hs_end_session(w)
  ELSE ChunkToken(hs_reset_timeout(w, HTTP_REQUEST_TIMEOUT), SessionChunkParse(w),
                  HTTP_SESSION_NOP, << >>)

\* http_session from case HTTP_SESSION_READ_HEADERS on
http_session_switch(w) ==
  IF w.r.state = HTTP_SESSION_READ_HEADERS
  THEN http_session_headers_read(hs_read_client_socket(w))
  ELSE IF w.r.state = HTTP_SESSION_READ_BODY
  THEN http_session_body_read(hs_read_client_socket(w))
  ELSE IF w.r.state = HTTP_SESSION_READ_CHUNK
  THEN http_session_chunk_read(hs_read_client_socket(w))
  ELSE IF w.r.state = HTTP_SESSION_WRITE
  THEN Push(w, <<Call("hs_write_response", "")>>)
  ELSE w

\* The INIT case without the test of memused.
http_session_init_unchecked(w) == http_session_switch(w)

\* case HTTP_SESSION_INIT of http_session after hs_init_session; the case falls
\* through to HTTP_SESSION_READ_HEADERS.
http_session_init(w) ==
  IF w.m > HTTP_MAX_TOTAL_EST_MEM_USAGE
  THEN hs_error_response(w, 503, MSG_503)
  ELSE http_session_switch(w)

http_session(w) ==
  IF w.r.state = HTTP_SESSION_INIT
  THEN http_session_init([w EXCEPT !.r = [hs_init_session(@) EXCEPT
                                            !.state = HTTP_SESSION_READ_HEADERS]])
  ELSE http_session_switch(w)

(***************************************************************************)
(* The host application.  A plan says what the request handler and the     *)
(* chunk callbacks of one connection do with the library's calls.          *)
(***************************************************************************)

HostResponse(plan) ==
  http_response_body(
    http_response_header(http_response_status(http_response_init, plan.status),
                         STR_CONTENT_TYPE, plan.type),
    plan.body, Len(plan.body))

\* The directive the application gives for the request of its k-th handler
\* call: the plan's, which a plan with `once` gives for the first request only.
HostDirective(plan, k) == IF plan.once /\ k > 1 THEN "auto" ELSE plan.conn

\* What the application does before it builds its response.
HostPrepare(w) ==
  http_request_connection(
    IF w.h.plan.free THEN http_request_free_buffer(w) ELSE w,
    HostDirective(w.h.plan, w.h.calls))

HostReply(w) ==
  Push([HostPrepare(w) EXCEPT !.h.pending = FALSE, !.origin = "host"],
       <<Call("http_respond", HostResponse(w.h.plan))>>)

HostChunk(w) ==
  Push([HostPrepare(w) EXCEPT !.h.sent = @ + 1, !.origin = "host"],
       <<Call("http_respond_chunk", HostResponse(w.h.plan))>>)

(***************************************************************************)
(* The volume control: handle_request and what it serves.  html and        *)
(* manifest stand for the two files read at startup.                       *)
(***************************************************************************)

STR_POST == <<80, 79, 83, 84>>
STR_VOLUME_UP == <<118, 111, 108, 117, 109, 101, 61, 117, 112>>
STR_MANIFEST_JSON == <<47, 109, 97, 110, 105, 102, 101, 115, 116, 46, 106, 115, 111, 110>>
STR_APPLICATION_JSON == <<97, 112, 112, 108, 105, 99, 97, 116, 105, 111, 110, 47, 106, 115, 111, 110>>
STR_TEXT_HTML == <<116, 101, 120, 116, 47, 104, 116, 109, 108>>
html == <<60, 104, 116, 109, 108, 62>>
manifest == <<123, 125>>

\* request->buf[i] as the handler reads it: a byte that was read, or what lies
\* behind the bytes read, which is zero in the buffer calloc gave and whatever
\* the build left there once realloc has grown it.
BufferByte(w, i) ==
  IF i >= 0 /\ i < Len(w.r.buf) THEN w.r.buf[i + 1]
  ELSE IF w.r.capacity = HTTP_REQUEST_BUF_SIZE THEN 0
  ELSE w.build.uninit

\* strncmp(s.buf, expected, strlen(expected)) == 0: s.len is not looked at, and
\* expected holds no zero byte, so that every byte of it is compared.
http_string_compare(w, s, expected) ==
  \A j \in 1..Len(expected) : BufferByte(w, s.token.index + j - 1) = expected[j]

\* The command handle_request passes to system(), if any.
VolumeCommand(w) ==
  IF http_string_compare(w, http_request_method(w.r), STR_POST)
  THEN IF http_string_compare(w, http_request_body(w.r), STR_VOLUME_UP)
       THEN "amixer sset Digital 5%+"
       ELSE "amixer sset Digital 5%-"
  ELSE "none"

\* The response handle_request builds.
VolumeResponse(w) ==
  IF http_string_compare(w, http_request_target(w.r), STR_MANIFEST_JSON)
  THEN http_response_body(
         http_response_header(http_response_status(http_response_init, 200),
                              STR_CONTENT_TYPE, STR_APPLICATION_JSON),
         manifest, Len(manifest))
  ELSE http_response_body(
         http_response_header(http_response_status(http_response_init, 200),
                              STR_CONTENT_TYPE, STR_TEXT_HTML),
         html, Len(html))

\* What one call of handle_request was given and did: the method, target and
\* body of the request as its tokens describe them, the command run and the
\* response passed to http_respond.
VolumeRan(w) ==
  [method |-> StringBytes(w.r, http_request_method(w.r)),
   target |-> StringBytes(w.r, http_request_target(w.r)),
   body |-> StringBytes(w.r, http_request_body(w.r)),
   command |-> VolumeCommand(w),
   response |-> VolumeResponse(w)]

\* handle_request.  A string that http_get_token_string did not find has a
\* null buf, and strncmp on it ends the process.
handle_request(w) ==
  IF ~(http_request_method(w.r).found /\ http_request_target(w.r).found
       /\ http_request_body(w.r).found)
  THEN [w EXCEPT !.g.crash = TRUE]
  ELSE Push([w EXCEPT !.h.ran = Append(@, VolumeRan(w)), !.h.pending = FALSE,
                      !.origin = "host"],
            <<Call("http_respond", VolumeResponse(w))>>)

\* The server's request_handler
request_handler_plan(w) ==
  IF w.h.plan.mode = "volume" THEN handle_request(w)
  ELSE IF w.h.plan.mode = "sync" THEN HostReply(w)
  ELSE IF w.h.plan.mode = "async" THEN [w EXCEPT !.h.pending = TRUE]
  ELSE IF w.h.plan.mode = "chunked" THEN HostChunk(w)
  ELSE IF w.h.plan.lazy THEN [w EXCEPT !.h.pending = TRUE]
  ELSE http_request_read_chunk(w, "request_chunk_cb")

\* Token t describes bytes of a buffer filled with n bytes.  A PARSE_ERROR
\* token describes none: its index is the kind of error.
Inside(t, n) == t.type = HTTP_PARSE_ERROR \/ (t.index >= 0 /\ t.index + t.len <= n)

\* The strings that the application can take from request r now (the token
\* log behind http_get_token_string, request->token behind http_request_chunk)
\* are all within the bytes read.
TokensInside(r) ==
  r.tokens_null \/
    /\ \A j \in 1..Len(r.tokens) : Inside(r.tokens[j], r.bytes)
    /\ Inside(r.token, r.bytes)

\* What the handler finds when it reads the body: the string that
\* http_request_body gives it, its bytes, and how many bytes of it are beyond
\* request->bytes, that is, not read yet; and the state of the session it is
\* called in.
HostSees(r, str) ==
  [index |-> str.token.index, len |-> str.token.len, body |-> StringBytes(r, str),
   missing |-> Max(0, str.token.index + str.token.len - r.bytes),
   state |-> r.state]

\* The handler reads the body of the request it is called for; h.seen keeps
\* what it found.
request_handler(w) ==
  request_handler_plan(
    [w EXCEPT !.h.calls = @ + 1, !.h.sent = 0,
              !.h.stray = @ \/ ~TokensInside(w.r),
              !.h.seen = Append(@, HostSees(w.r, http_request_body(w.r)))])

\* The response that ends the application's chunked response; its headers are
\* the trailers.
HostTrailers(plan) ==
  IF plan.trailer
  THEN http_response_header(http_response_init, STR_CONTENT_TYPE, plan.type)
  ELSE http_response_init

\* The application goes on with its chunked response: the next chunk, or the
\* end after the last one.
HostChunkNext(w) ==
  IF w.h.sent < w.h.plan.chunks
  THEN HostChunk(w)
  ELSE Push([w EXCEPT !.origin = "host"],
            <<Call("http_respond_chunk_end", HostTrailers(w.h.plan))>>)

\* The callback given to http_respond_chunk.  h.done counts its calls and
\* h.early tells whether one of them came while response bytes were unwritten.
\* A lazy application returns and goes on later, outside the callback.
response_chunk_cb_plan(w) ==
  IF w.h.plan.lazy THEN [w EXCEPT !.h.pending = TRUE] ELSE HostChunkNext(w)

response_chunk_cb(w) ==
  response_chunk_cb_plan(
    [w EXCEPT !.h.done = @ + 1, !.h.early = @ \/ Len(w.k.out) < w.g.handed])

\* What the application does when it comes back to a request it left waiting.
HostResume(w) ==
  IF w.h.plan.mode = "chunked"
  THEN HostChunkNext([w EXCEPT !.h.pending = FALSE])
  ELSE IF w.h.plan.mode = "readchunks"
  THEN http_request_read_chunk([w EXCEPT !.h.pending = FALSE], "request_chunk_cb")
  ELSE HostReply(w)

\* The callback given to http_request_read_chunk; h.stray tells whether a
\* callback of the application has found a token beyond the bytes read.
request_chunk_cb_plan(w) ==
  IF w.r.token.len > 0 /\ w.h.plan.lazy
  THEN [w EXCEPT !.h.chunks = Append(@, http_request_chunk(w.r)), !.h.pending = TRUE]
  ELSE IF w.r.token.len > 0
  THEN http_request_read_chunk([w EXCEPT !.h.chunks = Append(@, http_request_chunk(w.r))],
                               "request_chunk_cb")
  ELSE HostReply([w EXCEPT !.h.chunks = Append(@, http_request_chunk(w.r))])

request_chunk_cb(w) ==
  request_chunk_cb_plan([w EXCEPT !.h.stray = @ \/ ~TokensInside(w.r)])

\* handler(request) through a function pointer
CallHandler(w, handler) ==
  IF handler = "request_handler" THEN request_handler(w)
  ELSE IF handler = "response_chunk_cb" THEN response_chunk_cb(w)
  ELSE IF handler = "request_chunk_cb" THEN request_chunk_cb(w)
  ELSE [w EXCEPT !.g.crash = TRUE]

\* A timer callback that counts down and never ends the session.
hs_request_timer_cb_lax(w) == [w EXCEPT !.r.timeout = @ - 1]

\* The timer callback of a session.
hs_request_timer_cb(w) ==
  IF w.r.timeout - 1 = 0
  THEN hs_end_session([w EXCEPT !.r.timeout = @ - 1])
  ELSE [w EXCEPT !.r.timeout = @ - 1]

\* One call off w.todo
Dispatch(w, c) ==
  IF c.f = "http_session" THEN http_session(w)
  ELSE IF c.f = "hs_write_response" THEN hs_write_response(w)
  ELSE IF c.f = "hs_exec_response_handler:after" THEN hs_exec_response_handler_after(w)
  ELSE IF c.f = "handler" THEN CallHandler(w, c.a)
  ELSE IF c.f = "http_respond" THEN http_respond(w, c.a)
  ELSE IF c.f = "http_respond_chunk" THEN http_respond_chunk(w, c.a, "response_chunk_cb")
  ELSE IF c.f = "http_respond_chunk_end" THEN http_respond_chunk_end(w, c.a)
  ELSE IF c.f = "hs_request_timer_cb" THEN hs_request_timer_cb(w)
  ELSE IF c.f = "http_request_read_chunk:read" THEN http_request_read_chunk_read(w)
  ELSE IF c.f = "state" THEN [w EXCEPT !.r.state = c.a]
  ELSE w

RECURSIVE Run(_)
Run(w) ==
  IF w.todo = << >> THEN w
  ELSE Run(Dispatch([w EXCEPT !.todo = Tail(@)], Head(w.todo)))

(***************************************************************************)
(* The server with its connections.  Each connection has a client that     *)
(* follows a script (connect, send bytes, half-close, reset, open the send *)
(* window) and a host plan; the kernel decides when the server hears of    *)
(* it.                                                                     *)
(***************************************************************************)

VARIABLES memused, errno, sess, scn, pz, poll, rs

vars == <<memused, errno, sess, scn, pz, poll, rs>>

Sessions == {"a", "b"}

REQ_GET11 == <<71, 69, 84, 32, 47, 32, 72, 84, 84, 80, 47, 49, 46, 49, 13, 10, 72, 111, 115, 116, 58, 32, 97, 13, 10, 13, 10>>
REQ_GET11_A == <<71, 69, 84, 32, 47, 32, 72, 84, 84, 80, 47, 49, 46, 49, 13, 10, 72, 111>>
REQ_GET11_B == <<115, 116, 58, 32, 97, 13, 10, 13, 10>>
REQ_GET11_C == <<71, 69, 84, 32, 47, 32, 72, 84, 84, 80, 47, 49, 46>>
REQ_GET11_D == <<49, 13, 10, 72, 111, 115, 116, 58, 32, 97, 13, 10, 13, 10>>
REQ_GET10 == <<71, 69, 84, 32, 47, 32, 72, 84, 84, 80, 47, 49, 46, 48, 13, 10, 72, 111, 115, 116, 58, 32, 97, 13, 10, 13, 10>>
REQ_CLOSE11 == <<71, 69, 84, 32, 47, 32, 72, 84, 84, 80, 47, 49, 46, 49, 13, 10, 67, 111, 110, 110, 101, 99, 116, 105, 111, 110, 58, 32, 99, 108, 111, 115, 101, 13, 10, 13, 10>>
REQ_KEEP10 == <<71, 69, 84, 32, 47, 32, 72, 84, 84, 80, 47, 49, 46, 48, 13, 10, 67, 111, 110, 110, 101, 99, 116, 105, 111, 110, 58, 32, 107, 101, 101, 112, 45, 97, 108, 105, 118, 101, 13, 10, 13, 10>>
REQ_POST_HEAD == <<80, 79, 83, 84, 32, 47, 32, 72, 84, 84, 80, 47, 49, 46, 49, 13, 10, 67, 111, 110, 116, 101, 110, 116, 45, 76, 101, 110, 103, 116, 104, 58, 32, 53, 13, 10, 13, 10>>
REQ_POST_HEAD_A == <<80, 79, 83, 84, 32, 47, 32, 72, 84, 84, 80, 47, 49, 46, 49, 13, 10, 67, 111, 110, 116, 101, 110, 116, 45, 76, 101, 110, 103, 116, 104, 58, 32>>
REQ_POST_HEAD_B == <<49, 49, 13, 10, 13, 10>>
REQ_UP == <<80, 79, 83, 84, 32, 47, 32, 72, 84, 84, 80, 47, 49, 46, 49, 13, 10, 67, 111, 110, 116, 101, 110, 116, 45, 76, 101, 110, 103, 116, 104, 58, 32, 57, 13, 10, 13, 10, 118, 111, 108, 117, 109, 101, 61, 117, 112>>
REQ_CUT == <<80, 79, 83, 84, 32, 47, 32, 72, 84, 84, 80, 47, 49, 46, 49, 13, 10, 67, 111, 110, 116, 101, 110, 116, 45, 76, 101, 110, 103, 116, 104, 58, 32, 55, 13, 10, 13, 10, 118, 111, 108, 117, 109, 101, 61, 117, 112>>
REQ_MANIFEST == <<71, 69, 84, 32, 47, 109, 97, 110, 105, 102, 101, 115, 116, 46, 106, 115, 111, 110, 32, 72, 84, 84, 80, 47, 49, 46, 49, 13, 10, 72, 111, 115, 116, 58, 32, 97, 13, 10, 13, 10>>
REQ_POSTS == <<80, 79, 83, 84, 83, 32, 47, 32, 72, 84, 84, 80, 47, 49, 46, 49, 13, 10, 72, 111, 115, 116, 58, 32, 97, 13, 10, 13, 10>>
REQ_VOLUME == <<118, 111, 108, 117, 109, 101, 61, 100, 111, 119, 110>>
REQ_POST_BODY == <<104, 101, 108, 108, 111>>
REQ_BADKEY == <<71, 69, 84, 32, 47, 32, 72, 84, 84, 80, 47, 49, 46, 49, 13, 10, 88, 88, 88, 88, 88, 88, 88, 88, 88, 88, 88, 88, 88, 88, 88, 88, 88, 88, 88, 88, 88, 88, 88, 88, 58, 32, 49, 13, 10, 13, 10>>
REQ_BADMETHOD == <<88, 88, 88, 88, 88, 88, 88, 88, 88, 88, 88, 88, 88, 88, 88, 88, 88, 88, 88, 88, 88, 88, 88, 88, 32, 47, 32, 72, 84, 84, 80, 47, 49, 46, 49, 13, 10, 13, 10>>
REQ_BIG == <<80, 79, 83, 84, 32, 47, 32, 72, 84, 84, 80, 47, 49, 46, 49, 13, 10, 67, 111, 110, 116, 101, 110, 116, 45, 76, 101, 110, 103, 116, 104, 58, 32, 57, 57, 57, 57, 57, 57, 57, 57, 13, 10, 13, 10>>
REQ_BIG_BODY == <<48, 49, 50, 51, 52, 53, 54, 55, 56, 57, 48, 49, 50, 51, 52, 53, 54, 55, 56, 57, 48, 49, 50, 51, 52, 53, 54, 55, 56, 57, 48, 49, 50, 51, 52, 53, 54, 55, 56, 57>>
REQ_CHUNKED_HEAD == <<80, 79, 83, 84, 32, 47, 32, 72, 84, 84, 80, 47, 49, 46, 49, 13, 10, 84, 114, 97, 110, 115, 102, 101, 114, 45, 69, 110, 99, 111, 100, 105, 110, 103, 58, 32, 99, 104, 117, 110, 107, 101, 100, 13, 10, 13, 10>>
REQ_CHUNKS == <<53, 13, 10, 104, 101, 108, 108, 111, 13, 10, 51, 13, 10, 97, 98, 99, 13, 10, 48, 13, 10, 13, 10>>
CHUNKS_PAYLOAD == <<104, 101, 108, 108, 111, 97, 98, 99>>
\* "5\r\nhello\r\n0\r\n\r\n"
REQ_ONE_CHUNK == <<53, 13, 10, 104, 101, 108, 108, 111, 13, 10, 48, 13, 10, 13, 10>>
ONE_PAYLOAD == <<104, 101, 108, 108, 111>>
BODY_OK == <<111, 107>>
BODY_LONG == <<48, 49, 50, 51, 52, 53, 54, 55, 56, 57, 48, 49, 50, 51, 52, 53, 54, 55, 56, 57, 48, 49, 50, 51, 52, 53, 54, 55, 56, 57, 48, 49, 50, 51, 52, 53, 54, 55, 56, 57, 48, 49, 50, 51, 52, 53>>

Syn == [op |-> "syn", data |-> << >>, n |-> 0]
Send(data) == [op |-> "send", data |-> data, n |-> 0]
\* Bytes that the client's TCP may deliver in any number of segments.
SendAny(data) == [op |-> "send", data |-> data, n |-> 1]
Fin == [op |-> "fin", data |-> << >>, n |-> 0]
FinLate == [op |-> "finlate", data |-> << >>, n |-> 0]
Gone == [op |-> "gone", data |-> << >>, n |-> 0]
Window(n) == [op |-> "window", data |-> << >>, n |-> n]

\* A Content-Type long enough for the response headers to outgrow the buffer
\* grwprintf_init gives them.
STR_DOCX == <<97, 112, 112, 108, 105, 99, 97, 116, 105, 111, 110, 47, 118, 110, 100, 46, 111, 112, 101, 110, 120, 109, 108, 102, 111, 114, 109, 97, 116, 115, 45, 111, 102, 102, 105, 99, 101, 100, 111, 99, 117, 109, 101, 110, 116, 46, 119, 111, 114, 100, 112, 114, 111, 99, 101, 115, 115, 105, 110, 103, 109, 108, 46, 100, 111, 99, 117, 109, 101, 110, 116>>

\* Host plans
PlanSync == [mode |-> "sync", free |-> FALSE, conn |-> "auto", status |-> 200,
             body |-> BODY_OK, chunks |-> 0, lazy |-> FALSE, trailer |-> FALSE,
             once |-> FALSE,
             type |-> STR_TEXT_PLAIN]
PlanLong == [PlanSync EXCEPT !.body = BODY_LONG]
PlanFree == [PlanSync EXCEPT !.free = TRUE]
PlanWide == [PlanSync EXCEPT !.type = STR_DOCX]
PlanKeep == [PlanSync EXCEPT !.conn = HTTP_KEEP_ALIVE]
PlanClose == [PlanSync EXCEPT !.conn = HTTP_CLOSE]
PlanKeepOnce == [PlanKeep EXCEPT !.once = TRUE]
PlanCloseOnce == [PlanClose EXCEPT !.once = TRUE]
PlanAsync == [PlanSync EXCEPT !.mode = "async"]
PlanChunked == [PlanSync EXCEPT !.mode = "chunked", !.chunks = 2]
PlanChunkedLazy == [PlanChunked EXCEPT !.lazy = TRUE]
PlanTrailer == [PlanChunkedLazy EXCEPT !.trailer = TRUE]
PlanChunkedLong == [PlanChunkedLazy EXCEPT !.body = BODY_LONG]
PlanReadChunks == [PlanSync EXCEPT !.mode = "readchunks"]
PlanReadLater == [PlanReadChunks EXCEPT !.lazy = TRUE]
PlanVolume == [PlanSync EXCEPT !.mode = "volume"]

\* What the client's request says, for the properties: its version, its
\* Connection header, whether its Content-Length is over the limit, and the
\* payload of its chunked body.
Meta(version, conn) ==
  [version |-> version, conn |-> conn, oversize |-> FALSE, payload |-> << >>,
   head |-> 0, body |-> << >>]

Conn(script, plan, space, meta) ==
  [script |-> script, plan |-> plan, space |-> space, meta |-> meta]

Absent == Conn(<< >>, PlanSync, 0, Meta("none", "none"))

Plain == Conn(<<Syn, Send(REQ_GET11)>>, PlanSync, 1000, Meta("1.1", "none"))

BuildUp == [memcpy |-> "up", uninit |-> 0, va_len |-> 0]
BuildDown == [memcpy |-> "down", uninit |-> 5, va_len |-> 0]

Scenario(name, a, b, build) == [name |-> name, a |-> a, b |-> b, build |-> build]

Alone(name, script, plan, space, meta) ==
  Scenario(name, Conn(script, plan, space, meta), Absent, BuildUp)

Scenarios ==
  { Alone("keepalive", <<Syn, Send(REQ_GET11), Send(REQ_GET11)>>, PlanSync, 1000,
          Meta("1.1", "none")),
    Alone("http10", <<Syn, Send(REQ_GET10)>>, PlanSync, 1000, Meta("1.0", "none")),
    Alone("close11", <<Syn, Send(REQ_CLOSE11)>>, PlanSync, 1000, Meta("1.1", "close")),
    Alone("keep10", <<Syn, Send(REQ_KEEP10), Fin>>, PlanSync, 1000,
          Meta("1.0", "keep-alive")),
    Alone("split", <<Syn, Send(REQ_GET11_A), Send(REQ_GET11_B)>>, PlanSync, 1000,
          Meta("1.1", "none")),
    Alone("post", <<Syn, Send(REQ_POST_HEAD), Send(REQ_POST_BODY)>>, PlanSync, 1000,
          [Meta("1.1", "none") EXCEPT !.head = Len(REQ_POST_HEAD), !.body = REQ_POST_BODY]),
    Alone("post_split",
          <<Syn, Send(REQ_POST_HEAD_A), Send(REQ_POST_HEAD_B \o REQ_VOLUME)>>,
          PlanSync, 1000,
          [Meta("1.1", "none") EXCEPT
             !.head = Len(REQ_POST_HEAD_A) + Len(REQ_POST_HEAD_B), !.body = REQ_VOLUME]),
    Alone("badkey", <<Syn, Send(REQ_BADKEY), Send(REQ_GET11)>>, PlanSync, 1000,
          Meta("1.1", "none")),
    Alone("badmethod", <<Syn, Send(REQ_BADMETHOD)>>, PlanSync, 1000,
          Meta("1.1", "none")),
    Alone("oversize", <<Syn, Send(REQ_BIG)>>, PlanSync, 1000,
          [Meta("1.1", "none") EXCEPT !.oversize = TRUE]),
    Alone("oversize_body", <<Syn, Send(REQ_BIG \o REQ_BIG_BODY)>>, PlanSync, 1000,
          [Meta("1.1", "none") EXCEPT !.oversize = TRUE]),
    Alone("hangup", <<Syn, Send(REQ_GET11_A), Fin>>, PlanSync, 1000,
          Meta("1.1", "none")),
    Alone("idle", <<Syn>>, PlanSync, 1000, Meta("none", "none")),
    Alone("free", <<Syn, Send(REQ_GET11)>>, PlanFree, 1000, Meta("1.1", "none")),
    Alone("stall", <<Syn, Send(REQ_GET11_C), Send(REQ_GET11_D)>>, PlanSync, 1000,
          Meta("1.1", "none")),
    Alone("wide", <<Syn, Send(REQ_GET11), Window(300)>>, PlanWide, 100,
          Meta("1.1", "none")),
    Alone("keep", <<Syn, Send(REQ_GET10)>>, PlanKeep, 1000, Meta("1.0", "none")),
    Alone("closing", <<Syn, Send(REQ_GET11)>>, PlanClose, 1000, Meta("1.1", "none")),
    Alone("keep_once", <<Syn, Send(REQ_GET10), Send(REQ_GET10)>>, PlanKeepOnce, 1000,
          Meta("1.0", "none")),
    Alone("close_once", <<Syn, Send(REQ_KEEP10), Send(REQ_KEEP10)>>, PlanCloseOnce, 1000,
          Meta("1.0", "keep-alive")),
    Alone("async", <<Syn, Send(REQ_GET11)>>, PlanAsync, 1000, Meta("1.1", "none")),
    Alone("async_more", <<Syn, Send(REQ_GET11), Send(REQ_GET11), Fin>>, PlanAsync, 1000,
          Meta("1.1", "none")),
    Alone("chunked", <<Syn, Send(REQ_GET11)>>, PlanChunked, 1000, Meta("1.1", "none")),
    Alone("chunked_lazy", <<Syn, Send(REQ_GET11), Send(REQ_GET11)>>, PlanChunkedLazy, 1000,
          Meta("1.1", "none")),
    Alone("trailer", <<Syn, Send(REQ_GET11)>>, PlanTrailer, 1000, Meta("1.1", "none")),
    Alone("chunked_long", <<Syn, Send(REQ_GET11)>>, PlanChunkedLong, 1000,
          Meta("1.1", "none")),
    Alone("chunks", <<Syn, Send(REQ_CHUNKED_HEAD \o REQ_CHUNKS)>>, PlanReadChunks, 1000,
          [Meta("1.1", "none") EXCEPT !.payload = CHUNKS_PAYLOAD,
                                      !.head = Len(REQ_CHUNKED_HEAD)]),
    Scenario("chunks_split",
             Conn(<<Syn, Send(REQ_CHUNKED_HEAD), SendAny(REQ_CHUNKS)>>,
                  PlanReadChunks, 1000,
                  [Meta("1.1", "none") EXCEPT !.payload = CHUNKS_PAYLOAD,
                                      !.head = Len(REQ_CHUNKED_HEAD)]),
             Absent, BuildUp),
    Scenario("chunks_split_down",
             Conn(<<Syn, Send(REQ_CHUNKED_HEAD), SendAny(REQ_CHUNKS)>>,
                  PlanReadChunks, 1000,
                  [Meta("1.1", "none") EXCEPT !.payload = CHUNKS_PAYLOAD,
                                      !.head = Len(REQ_CHUNKED_HEAD)]),
             Absent, BuildDown),
    Alone("early", <<Syn, Send(SubSeq(REQ_GET11, 1, Len(REQ_GET11) - 1)), Send(<<LF>>)>>,
          PlanSync, 1000, Meta("1.1", "none")),
    Alone("chunks_later",
          <<Syn, Send(REQ_CHUNKED_HEAD), Send(SubSeq(REQ_CHUNKS, 1, 10)),
            Send(SubSeq(REQ_CHUNKS, 11, Len(REQ_CHUNKS)))>>,
          PlanReadLater, 1000,
          [Meta("1.1", "none") EXCEPT !.payload = CHUNKS_PAYLOAD,
                                      !.head = Len(REQ_CHUNKED_HEAD)]),
    Alone("volume_up", <<Syn, Send(REQ_UP)>>, PlanVolume, 1000,
          [Meta("1.1", "none") EXCEPT !.head = Len(REQ_UP) - Len(STR_VOLUME_UP),
                                      !.body = STR_VOLUME_UP]),
    Alone("volume_down",
          <<Syn, Send(REQ_POST_HEAD_A \o REQ_POST_HEAD_B \o REQ_VOLUME)>>, PlanVolume, 1000,
          [Meta("1.1", "none") EXCEPT
             !.head = Len(REQ_POST_HEAD_A) + Len(REQ_POST_HEAD_B), !.body = REQ_VOLUME]),
    Alone("volume_cut", <<Syn, Send(REQ_CUT)>>, PlanVolume, 1000,
          [Meta("1.1", "none") EXCEPT !.head = Len(REQ_CUT) - Len(STR_VOLUME_UP),
                                      !.body = SubSeq(STR_VOLUME_UP, 1, 7)]),
    Alone("manifest", <<Syn, Send(REQ_MANIFEST)>>, PlanVolume, 1000, Meta("1.1", "none")),
    Alone("page", <<Syn, Send(REQ_GET11)>>, PlanVolume, 1000, Meta("1.1", "none")),
    Alone("posts", <<Syn, Send(REQ_POSTS)>>, PlanVolume, 1000, Meta("1.1", "none")),
    Alone("chunks_fin", <<Syn, Send(REQ_CHUNKED_HEAD), FinLate>>, PlanReadChunks, 1000,
          [Meta("1.1", "none") EXCEPT !.head = Len(REQ_CHUNKED_HEAD)]),
    Alone("chunked_head_split",
          <<Syn, Send(SubSeq(REQ_CHUNKED_HEAD, 1, 20)),
            Send(SubSeq(REQ_CHUNKED_HEAD, 21, Len(REQ_CHUNKED_HEAD)) \o REQ_ONE_CHUNK)>>,
          PlanReadChunks, 1000,
          [Meta("1.1", "none") EXCEPT !.payload = ONE_PAYLOAD,
                                      !.head = Len(REQ_CHUNKED_HEAD)]),
    Scenario("slow",
             Conn(<<Syn, Send(REQ_GET11), Send(REQ_GET11), Window(100), Window(200)>>,
                  PlanLong, 100,
                  Meta("1.1", "none")),
             Plain, BuildUp),
    Scenario("reset",
             Conn(<<Syn, Send(REQ_GET11), Gone, Window(100)>>, PlanLong, 100,
                  Meta("1.1", "none")),
             Conn(<<Syn, Send(REQ_GET11), Window(100)>>, PlanLong, 100,
                  Meta("1.1", "none")),
             BuildUp),
    Scenario("reset_short",
             Conn(<<Syn, Send(REQ_GET11), Gone, Window(100)>>, PlanLong, 100,
                  Meta("1.1", "none")),
             Conn(<<Syn, Send(REQ_GET11), Window(30), Window(100)>>, PlanLong, 100,
                  Meta("1.1", "none")),
             BuildUp) }

SocketNew(space) ==
  [rcv |-> << >>, eof |-> FALSE, eof_soon |-> FALSE, gone |-> FALSE, space |-> space,
   out |-> << >>,
   interest |-> "NONE", in_edge |-> FALSE, out_edge |-> FALSE, closed |-> FALSE]

HostNew(plan) ==
  [plan |-> plan, calls |-> 0, pending |-> FALSE, sent |-> 0, done |-> 0,
   early |-> FALSE, chunks |-> << >>, seen |-> << >>, stray |-> FALSE,
   ran |-> << >>]

GhostNew ==
  [resps |-> << >>, ends |-> 0, uaf |-> FALSE, crash |-> FALSE, handed |-> 0,
   idle |-> 0, ev |-> "none", fresh |-> FALSE, begun |-> 0, twice |-> FALSE]

ConnNew(c) ==
  [phase |-> "none", script |-> c.script, meta |-> c.meta, r |-> SessionNew,
   k |-> SocketNew(c.space), h |-> HostNew(c.plan), g |-> GhostNew]

PzNone ==
  [input |-> << >>, fed |-> 0, reads |-> 0, parser |-> ParserInit,
   token |-> TokenNone, tokens |-> << >>, hung |-> FALSE]

\* What http_server_poll returns when epoll_wait has returned nev: with an
\* event it runs the event's callback first.
http_server_poll(nev) == IF nev <= 0 THEN nev ELSE nev

\* The latest pass of the event loop: what http_server_poll returned for it and
\* whether the request handler was invoked in it.
PollNone == [ret |-> 0, handled |-> FALSE]

\* A response the application builds: the status it passes to
\* http_response_status (arg), whether it has called it (called), how far it is
\* (step), and what the status line gets from hs_status_text: the reason (text)
\* and whether it was read from inside the table (inside).
RsNone ==
  [arg |-> 0, called |-> FALSE, step |-> "none", response |-> http_response_init,
   text |-> << >>, inside |-> TRUE]

Init ==
  /\ memused = 0
  /\ errno = "0"
  /\ scn \in Scenarios
  /\ sess = [s \in Sessions |-> ConnNew(IF s = "a" THEN scn.a ELSE scn.b)]
  /\ pz = PzNone
  /\ poll = PollNone
  /\ rs = RsNone

World(s, k) ==
  [m |-> memused, errno |-> errno, r |-> sess[s].r, k |-> k, h |-> sess[s].h,
   g |-> sess[s].g, build |-> scn.build, ctx |-> CtxNone, ret |-> 0,
   tok |-> TokenNone, origin |-> "host", wrote |-> FALSE, todo |-> << >>]

\* An event callback of the loop, run to its return.
Enter(s, k, f) == Run(Push(World(s, k), <<Call(f, "")>>))

\* What the event callback ev of connection s leaves behind; idle counts the
\* timer ticks since the connection last had any other event.
Commit(s, w, ev) ==
  /\ memused' = w.m
  /\ errno' = w.errno
  /\ sess' = [sess EXCEPT ![s].phase = "open", ![s].r = w.r, ![s].k = w.k,
                          ![s].h = w.h,
                          ![s].g = [w.g EXCEPT !.ev = ev,
                                               !.idle = IF ev = "timer" THEN @ + 1 ELSE 0]]
  /\ poll' = IF ev = "host" THEN poll
             ELSE [ret |-> http_server_poll(1), handled |-> w.h.calls > sess[s].h.calls]
  /\ UNCHANGED <<scn, pz, rs>>

Live(s) == sess[s].phase = "open" /\ sess[s].r.alive

\* The server is in its event loop: no callback is stuck and none has crashed.
Up == \A t \in Sessions : ~sess[t].g.crash

\* The client's next step.
Step(s) == Head(sess[s].script)

ClientStep(s, op) ==
  /\ sess[s].script # << >>
  /\ Step(s).op = op
  /\ ~sess[s].k.closed

ClientDone(s, k) ==
  /\ sess' = [sess EXCEPT ![s].script = Tail(@), ![s].k = k]
  /\ UNCHANGED <<memused, errno, scn, pz, poll, rs>>

ClientConnect(s) ==
  /\ ClientStep(s, "syn")
  /\ sess[s].phase = "none"
  /\ sess' = [sess EXCEPT ![s].script = Tail(@), ![s].phase = "syn"]
  /\ UNCHANGED <<memused, errno, scn, pz, poll, rs>>

ClientSend(s) ==
  /\ ClientStep(s, "send")
  /\ ClientDone(s, [sess[s].k EXCEPT !.rcv = @ \o Step(s).data, !.in_edge = TRUE])

\* A segment with the first k bytes of what the client is sending.
ClientSendPart(s) ==
  /\ ClientStep(s, "send")
  /\ Step(s).n = 1
  /\ \E k \in 1..(Len(Step(s).data) - 1) :
       /\ sess' = [sess EXCEPT
                     ![s].script = <<SendAny(SubSeq(Step(s).data, k + 1, Len(Step(s).data)))>>
                                     \o Tail(@),
                     ![s].k = [@ EXCEPT !.rcv = @ \o SubSeq(Step(s).data, 1, k),
                                        !.in_edge = TRUE]]
       /\ UNCHANGED <<memused, errno, scn, pz, poll, rs>>

ClientFin(s) ==
  /\ ClientStep(s, "fin")
  /\ ClientDone(s, [sess[s].k EXCEPT !.eof = TRUE, !.in_edge = TRUE])

\* The client half-closes; its FIN reaches the server while a callback of the
\* connection is running, after the read that empties the socket.
ClientFinLate(s) ==
  /\ ClientStep(s, "finlate")
  /\ ClientDone(s, [sess[s].k EXCEPT !.eof_soon = TRUE])

ClientGone(s) ==
  /\ ClientStep(s, "gone")
  /\ ClientDone(s, [sess[s].k EXCEPT !.gone = TRUE])

ClientWindow(s) ==
  /\ ClientStep(s, "window")
  /\ ClientDone(s, [sess[s].k EXCEPT !.space = @ + Step(s).n, !.out_edge = TRUE])

\* hs_accept_connections for one pending connection: hs_add_events, then the
\* first http_session.
Accept(s) ==
  /\ Up
  /\ sess[s].phase = "syn"
  /\ Commit(s, Enter(s, [sess[s].k EXCEPT !.interest = "IN"], "http_session"), "accept")

\* hs_session_io_cb on EPOLLIN: epoll_wait reports the edge if the socket is
\* still readable (data or end of file) when it comes to it.
Readable(s) ==
  /\ Up
  /\ Live(s)
  /\ sess[s].k.interest = "IN"
  /\ sess[s].k.in_edge
  /\ sess[s].k.rcv # << >> \/ sess[s].k.eof
  /\ Commit(s, Enter(s, [sess[s].k EXCEPT !.in_edge = FALSE], "http_session"), "io")

\* hs_session_io_cb on EPOLLOUT
Writable(s) ==
  /\ Up
  /\ Live(s)
  /\ sess[s].k.interest = "OUT"
  /\ sess[s].k.out_edge
  /\ Commit(s, Enter(s, [sess[s].k EXCEPT !.out_edge = FALSE], "http_session"), "io")

Tick(s) ==
  /\ Up
  /\ Live(s)
  /\ Commit(s, Enter(s, sess[s].k, "hs_request_timer_cb"), "timer")

\* The application answers a request whose handler returned without a response.
HostRespond(s) ==
  /\ Up
  /\ Live(s)
  /\ sess[s].h.pending
  /\ Commit(s, Run(HostResume(World(s, sess[s].k))), "host")

\* epoll_wait has an event of connection s to report.
Ready(s) ==
  \/ sess[s].phase = "syn"
  \/ /\ Live(s)
     /\ \/ sess[s].k.interest = "IN" /\ sess[s].k.in_edge
           /\ (sess[s].k.rcv # << >> \/ sess[s].k.eof)
        \/ sess[s].k.interest = "OUT" /\ sess[s].k.out_edge

\* A pass of the loop that finds no event ready: epoll_wait returns 0.
PollIdle ==
  /\ Up
  /\ \A s \in Sessions : ~Ready(s)
  /\ poll' = [ret |-> http_server_poll(0), handled |-> FALSE]
  /\ UNCHANGED <<memused, errno, sess, scn, pz, rs>>

SessionNext(s) ==
    \/ ClientConnect(s)
    \/ ClientSend(s)
    \/ ClientSendPart(s)
    \/ ClientFin(s)
    \/ ClientFinLate(s)
    \/ ClientGone(s)
    \/ ClientWindow(s)
    \/ Accept(s)
    \/ Readable(s)
    \/ Writable(s)
    \/ Tick(s)
    \/ HostRespond(s)

Next == PollIdle \/ \E s \in Sessions : SessionNext(s)

Spec == Init /\ [][Next]_vars

(***************************************************************************)
(* The parser on its own: a request delivered in up to MaxReads reads      *)
(***************************************************************************)
MaxReads == 3

\* Two Content-Length headers, "8388608" and "9".
REQ_TWO_LENGTHS == <<80, 79, 83, 84, 32, 47, 32, 72, 84, 84, 80, 47, 49, 46, 49, 13, 10, 67, 111, 110, 116, 101, 110, 116, 45, 76, 101, 110, 103, 116, 104, 58, 32, 56, 51, 56, 56, 54, 48, 56, 13, 10, 67, 111, 110, 116, 101, 110, 116, 45, 76, 101, 110, 103, 116, 104, 58, 32, 57, 13, 10, 13, 10>>

Fill(c, n) == [i \in 1..n |-> c]

\* "GET /aa...a HTTP/1.1\r\n\r\n": a target one byte longer than a token may be.
REQ_LONG_TARGET ==
  <<71, 69, 84, 32, 47>> \o Fill(97, HTTP_MAX_TOKEN_LENGTH)
    \o <<32, 72, 84, 84, 80, 47, 49, 46, 49, 13, 10, 13, 10>>

\* "GET /aa...a HTTP/1.1\r\nHost: example.org\r\n\r\n": the same target, with a
\* header behind it.
REQ_LONG_TARGET_HOST ==
  <<71, 69, 84, 32, 47>> \o Fill(97, HTTP_MAX_TOKEN_LENGTH)
    \o <<32, 72, 84, 84, 80, 47, 49, 46, 49, 13, 10, 72, 111, 115, 116, 58, 32, 101, 120, 97, 109, 112, 108, 101, 46, 111, 114, 103, 13, 10, 13, 10>>

\* "GET / HTTP/1.1\r\nA: aa...a\r\n\r\n": likewise a header value.
REQ_LONG_VALUE ==
  <<71, 69, 84, 32, 47, 32, 72, 84, 84, 80, 47, 49, 46, 49, 13, 10, 65, 58, 32>>
    \o Fill(97, HTTP_MAX_TOKEN_LENGTH + 1) \o <<13, 10, 13, 10>>

\* The tokens of an input that are longer than HTTP_MAX_TOKEN_LENGTH: their
\* kind and the index of their first byte.
LongTokens(input) ==
  IF input = REQ_LONG_TARGET THEN {[type |-> HTTP_TARGET, index |-> 4]}
  ELSE IF input = REQ_LONG_VALUE THEN {[type |-> HTTP_HEADER_VALUE, index |-> 19]}
  ELSE {}

Repeat(h, n) == [i \in 1..(n * Len(h)) |-> h[((i - 1) % Len(h)) + 1]]

\* "GET / HTTP/1.1\r\n", then `first`, then n headers "A:x\r\n", then "\r\n".
REQ_HEADERS(first, n) ==
  <<71, 69, 84, 32, 47, 32, 72, 84, 84, 80, 47, 49, 46, 49, 13, 10>> \o first
    \o Repeat(<<65, 58, 120, 13, 10>>, n) \o <<13, 10>>

REQ_HEADERS_MAX == REQ_HEADERS(<< >>, HTTP_MAX_HEADER_COUNT)
REQ_HEADERS_OVER == REQ_HEADERS(<< >>, HTTP_MAX_HEADER_COUNT + 1)
\* The first of the headers is "A:\r\n", a header with an empty value.
REQ_HEADERS_EMPTY == REQ_HEADERS(<<65, 58, 13, 10>>, HTTP_MAX_HEADER_COUNT)

\* The number of header lines of an input.
HeaderLines(input) ==
  IF input = REQ_HEADERS_MAX THEN HTTP_MAX_HEADER_COUNT
  ELSE IF input \in {REQ_HEADERS_OVER, REQ_HEADERS_EMPTY} THEN HTTP_MAX_HEADER_COUNT + 1
  ELSE 0

ParseInputs ==
  {REQ_GET11, REQ_CLOSE11, REQ_POST_HEAD \o REQ_POST_BODY, REQ_BIG,
   REQ_BIG \o REQ_BIG_BODY,
   REQ_CHUNKED_HEAD, REQ_LONG_TARGET, REQ_LONG_VALUE,
   REQ_LONG_TARGET_HOST, REQ_HEADERS_MAX, REQ_HEADERS_OVER, REQ_HEADERS_EMPTY, REQ_TWO_LENGTHS}

ParseInit ==
  /\ \E input \in ParseInputs : pz = [PzNone EXCEPT !.input = input]
  /\ memused = 0
  /\ errno = "0"
  /\ scn = Scenario("parse", Absent, Absent, BuildUp)
  /\ poll = PollNone
  /\ rs = RsNone
  /\ sess = [s \in Sessions |-> ConnNew(Absent)]

\* One more read delivers the next k bytes and the session parses them.
ParseFed(z, k, r) ==
  [z EXCEPT !.fed = z.fed + k, !.reads = @ + 1, !.parser = r.parser,
            !.token = r.token, !.tokens = r.tokens, !.hung = r.hung]

ParseRead ==
  /\ pz.reads < MaxReads
  /\ ~pz.hung
  /\ pz.token.type \notin {HTTP_BODY, HTTP_PARSE_ERROR}
  /\ \E k \in 1..(Len(pz.input) - pz.fed) :
       pz' = ParseFed(pz, k, hs_parse_tokens(pz.parser, pz.token, pz.tokens, pz.input,
                                             pz.fed + k))
  /\ UNCHANGED <<memused, errno, sess, scn, poll, rs>>

ParseNext == ParseRead

SpecParse == ParseInit /\ [][ParseNext]_vars

\* The token log of the first n bytes of input parsed in one pass.
OnePass(input, n) == hs_parse_tokens(ParserInit, TokenNone, << >>, input, n).tokens

(***************************************************************************)
(* Response status.  The application makes a response, may give it a       *)
(* status, and responds; http_respond_headers looks the reason up.         *)
(***************************************************************************)
MaxStatus == 700

StatusInputs == (0 - 1)..MaxStatus

StatusInit ==
  /\ \E n \in StatusInputs : rs = [RsNone EXCEPT !.arg = n, !.step = "init"]
  /\ memused = 0
  /\ errno = "0"
  /\ scn = Scenario("status", Absent, Absent, BuildUp)
  /\ sess = [s \in Sessions |-> ConnNew(Absent)]
  /\ pz = PzNone
  /\ poll = PollNone

\* http_response_status(response, arg)
ResponseStatus ==
  /\ rs.step = "init"
  /\ ~rs.called
  /\ rs' = [rs EXCEPT !.called = TRUE,
                      !.response = http_response_status(@, rs.arg)]
  /\ UNCHANGED <<memused, errno, sess, scn, pz, poll>>

\* What hs_status_text[status] can be: the entry of the table, or, for an
\* index beyond its end, whatever pointer the memory behind the table holds.
StatusTexts(status) ==
  IF status >= 0 /\ status < HS_STATUS_TEXT_LEN THEN {hs_status_text(status)}
  ELSE {<< >>, <<INDETERMINATE>>}

\* The status line of http_respond_headers
RespondStatusLine ==
  /\ rs.step = "init"
  /\ \E text \in StatusTexts(rs.response.status) :
       rs' = [rs EXCEPT !.step = "sent", !.text = text,
                        !.inside = rs.response.status >= 0
                                     /\ rs.response.status < HS_STATUS_TEXT_LEN]
  /\ UNCHANGED <<memused, errno, sess, scn, pz, poll>>

StatusNext == ResponseStatus \/ RespondStatusLine

SpecStatus == StatusInit /\ [][StatusNext]_vars

(***************************************************************************)
(* The chunk parser on its own: the header block of a chunked request has  *)
(* been read and parsed, the handler asks for chunk after chunk with       *)
(* http_request_read_chunk, and the body arrives in up to MaxReads reads.  *)
(***************************************************************************)

\* "5;x\r\nhello\r\n0\r\n\r\n": the chunk of REQ_ONE_CHUNK with an extension.
REQ_CHUNK_EXTN == <<53, 59, 120, 13, 10, 104, 101, 108, 108, 111, 13, 10, 48, 13, 10, 13, 10>>

ChunkInputs ==
  { [body |-> REQ_CHUNKS, payload |-> CHUNKS_PAYLOAD],
    [body |-> REQ_ONE_CHUNK, payload |-> ONE_PAYLOAD],
    [body |-> REQ_CHUNK_EXTN, payload |-> ONE_PAYLOAD] }

\* No compaction has been made.
MovedNone ==
  [on |-> FALSE, tsi |-> 0, bsi |-> 0, n |-> 0, bytes |-> 0, start |-> 0,
   before |-> << >>, after |-> << >>]

\* http_chunk_parse from the end of its loop (the result loop, for n bytes of
\* buf), with a note of what the compaction was given and what it left.
ChunkParsed(loop, buf, n, after) ==
  [parser |-> after.parser, token |-> after.token, buf |-> after.buf, bytes |-> after.bytes,
   moved |-> IF /\ loop.token.type = HTTP_NONE
                /\ loop.parser.token_start_index > loop.parser.body_start_index
             THEN [on |-> TRUE, tsi |-> loop.parser.token_start_index,
                   bsi |-> loop.parser.body_start_index, n |-> n,
                   bytes |-> after.bytes, start |-> after.parser.start,
                   before |-> buf, after |-> after.buf]
             ELSE MovedNone]

ChunkParse(parser, buf, n, direction) ==
  ChunkParsed(http_chunk_parse_from(parser, buf, n, parser.start), buf, n,
              http_chunk_parse(parser, buf, n, direction))

\* The session after a call of http_chunk_parse: a chunk body token goes to
\* the chunk callback, which notes the bytes of its view; without one the
\* session waits for the socket.
ChunkFed(z, k, r) ==
  [z EXCEPT !.fed = z.fed + k, !.reads = IF k > 0 THEN @ + 1 ELSE @,
            !.parser = r.parser, !.buf = r.buf, !.bytes = r.bytes,
            !.moved = IF r.moved.on THEN r.moved ELSE @,
            !.waiting = r.token.type # HTTP_CHUNK_BODY,
            !.done = r.token.type = HTTP_CHUNK_BODY /\ r.token.len = 0,
            !.views = IF r.token.type = HTTP_CHUNK_BODY
                      THEN Append(@, Slice(r.buf, r.token.index, r.token.len))
                      ELSE @]

ChunkInit ==
  /\ \E c \in ChunkInputs : \E direction \in {"up", "down"} :
       pz = [input |-> c.body, payload |-> c.payload, direction |-> direction,
             fed |-> 0, reads |-> 0,
             buf |-> REQ_CHUNKED_HEAD, bytes |-> Len(REQ_CHUNKED_HEAD),
             parser |-> http_parse_start_chunk_mode(
                          hs_parse_tokens(ParserInit, TokenNone, << >>, REQ_CHUNKED_HEAD,
                                          Len(REQ_CHUNKED_HEAD)).parser),
             waiting |-> FALSE, done |-> FALSE, views |-> << >>, moved |-> MovedNone]
  /\ memused = 0
  /\ errno = "0"
  /\ scn = Scenario("chunk", Absent, Absent, BuildUp)
  /\ poll = PollNone
  /\ rs = RsNone
  /\ sess = [s \in Sessions |-> ConnNew(Absent)]

\* http_request_read_chunk: the parse of what the buffer holds.  (Its read of
\* the socket, when this parse gives no chunk, is the step ChunkRead.)
ChunkAsk ==
  /\ ~pz.waiting /\ ~pz.done
  /\ pz' = ChunkFed(pz, 0, ChunkParse(pz.parser, pz.buf, pz.bytes, pz.direction))
  /\ UNCHANGED <<memused, errno, sess, scn, poll, rs>>

\* A read of the next k bytes at buf + bytes, and the parse that follows it in
\* http_request_read_chunk and in case HTTP_SESSION_READ_CHUNK.
ChunkRead ==
  /\ pz.waiting
  /\ pz.reads < MaxReads
  /\ \E k \in 1..(Len(pz.input) - pz.fed) :
       pz' = ChunkFed(pz, k,
                      ChunkParse(pz.parser,
                                 WriteAt(pz.buf, pz.bytes,
                                         SubSeq(pz.input, pz.fed + 1, pz.fed + k), 0),
                                 pz.bytes + k, pz.direction))
  /\ UNCHANGED <<memused, errno, sess, scn, poll, rs>>

ChunkNext == ChunkAsk \/ ChunkRead

SpecChunk == ChunkInit /\ [][ChunkNext]_vars

(***************************************************************************)
(* Properties                                                              *)
(***************************************************************************)
Last(q) == q[Len(q)]

RECURSIVE Concat(_)
Concat(ss) == IF ss = << >> THEN << >> ELSE Head(ss) \o Concat(Tail(ss))

IsPrefix(p, q) == Len(p) <= Len(q) /\ SubSeq(q, 1, Len(p)) = p

\* The responses connection s has built so far, in order.
Resps(s) == sess[s].g.resps

\* The capacity of the buffer session s holds: request->buf is the read buffer
\* until http_end_response swaps the response buffer into its place.
Held(s) == IF sess[s].r.buf_null THEN 0 ELSE sess[s].r.capacity

Other(s) == CHOOSE t \in Sessions : t # s

\* Every response byte handed to the session is on the wire.
Written(s) == Len(sess[s].k.out) = sess[s].g.handed

\* C1: after any number of reads, the tokens (kind, start index, length) the
\* parser has emitted for the bytes read so far, resumed after each read from
\* its saved state, are the tokens of one pass over those bytes.
C1_SplitParseIsOnePass == pz.tokens = OnePass(pz.input, pz.fed)

\* C2: the chunk views handed to the chunk callback, concatenated in the order
\* of delivery, are a prefix of the payload of the chunked body, and are all of
\* it once the zero-length chunk that ends the body has been delivered.  This
\* is stated for the builds whose memcpy copies forwards, in which the
\* overlapping copy of http_chunk_parse moves the bytes intact.
C2_ChunkViewsAreBody ==
  \A s \in Sessions :
    (sess[s].meta.payload # << >> /\ scn.build.memcpy = "up") =>
      /\ IsPrefix(Concat(sess[s].h.chunks), sess[s].meta.payload)
      /\ (sess[s].h.chunks # << >> /\ Last(sess[s].h.chunks) = << >>)
           => Concat(sess[s].h.chunks) = sess[s].meta.payload

\* C3: a session whose latest response is the 400 or 413 the engine built for
\* a parse error is still writing that response or has been ended; it is never
\* alive in another state, in particular not back in INIT.
C3_ParseErrorCloses ==
  \A s \in Sessions :
    (Resps(s) # << >> /\ Last(Resps(s)).by = "engine"
       /\ Last(Resps(s)).status \in {400, 413})
      => (~sess[s].r.alive \/ sess[s].r.state = HTTP_SESSION_WRITE)

\* C4: on a connection whose request declares a Content-Length above
\* HTTP_MAX_CONTENT_LENGTH the request handler is never called and every
\* response has status 413.
C4_OversizeIs413 ==
  \A s \in Sessions :
    sess[s].meta.oversize =>
      /\ sess[s].h.calls = 0
      /\ \A j \in 1..Len(Resps(s)) : Resps(s)[j].status = 413

\* The automatic keep-alive rule for a request of the given version and
\* Connection header.
KeepRule(m) == ~(m.conn = "close" \/ (m.version = "1.0" /\ m.conn = "none"))

\* C5: a response the handler builds under automatic detection says keep-alive
\* exactly when the request has neither Connection: close nor is HTTP/1.0
\* without a Connection header; and once a response that says close is fully
\* written the session is ended.
C5_AutoKeepAlive ==
  \A s \in Sessions :
    /\ \A j \in 1..Len(Resps(s)) :
         (Resps(s)[j].auto /\ Resps(s)[j].by = "host")
           => (Resps(s)[j].keep <=> KeepRule(sess[s].meta))
    /\ (Resps(s) # << >> /\ Last(Resps(s)).auto /\ ~Last(Resps(s)).keep /\ Written(s))
         => ~sess[s].r.alive

\* C6: in every state from which the session initialises its parser or parses
\* request bytes (INIT, READ_HEADERS, READ_BODY), every byte of every response
\* built on the connection has been written to the socket.
C6_OneAtATime ==
  \A s \in Sessions :
    (Live(s) /\ sess[s].r.state \in {HTTP_SESSION_INIT, HTTP_SESSION_READ_HEADERS,
                                     HTTP_SESSION_READ_BODY})
      => Written(s)

\* A second request was handled on a connection whose first response needed
\* more than one write.
C6_Witness ==
  \E s \in Sessions :
    /\ sess[s].h.calls = 2 /\ Len(Resps(s)) = 2
    /\ sess[s].k.interest = "OUT"
    /\ Live(s) /\ sess[s].r.state = HTTP_SESSION_INIT

\* C7: between event callbacks memused is the sum of the capacities of the
\* buffers the sessions hold, and is not negative.
C7_MemusedIsSum == memused = Held("a") + Held("b") /\ memused >= 0

\* One session holds a grown response buffer while the other holds a buffer too.
C7_Witness == Held("a") > HTTP_RESPONSE_BUF_SIZE /\ Held("b") > 0

\* C8: a session that has completed a cycle (it is back in INIT, or was ended
\* after a response, an error response, a timeout or a hangup) holds no buffer,
\* and memused is what the other connection holds.
C8_MemusedRestored ==
  \A s \in Sessions :
    (sess[s].phase = "open" /\ (~sess[s].r.alive \/ sess[s].r.state = HTTP_SESSION_INIT))
      => (Held(s) = 0 /\ memused = Held(Other(s)))

\* A keep-alive connection back in INIT after its second response, memused 0.
C8_Witness ==
  \E s \in Sessions :
    /\ Live(s) /\ sess[s].r.state = HTTP_SESSION_INIT
    /\ Len(Resps(s)) = 2 /\ sess[s].h.calls = 2 /\ Written(s)
    /\ memused = 0

\* The step appends a 503 built by the engine to the responses of s.
New503(s) ==
  /\ Len(Resps(s)') = Len(Resps(s)) + 1
  /\ Last(Resps(s)').status = 503
  /\ Last(Resps(s)').by = "engine"

\* The latest response of s is a 503 built by the engine.
Rejected(s) ==
  Resps(s) # << >> /\ Last(Resps(s)).status = 503 /\ Last(Resps(s)).by = "engine"

\* The step is a socket event callback of session s.
SocketEvent(s) ==
  /\ sess[s]' # sess[s]
  /\ sess[s].script' = sess[s].script
  /\ sess[s].g.ev' \in {"accept", "io"}

C9_Step(s) ==
  /\ New503(s) => /\ sess[s].r.state = HTTP_SESSION_INIT
                  /\ memused > HTTP_MAX_TOTAL_EST_MEM_USAGE
                  /\ ~Last(Resps(s)').keep
                  /\ sess[s].h.calls' = sess[s].h.calls
                  /\ sess[s].k.rcv' = sess[s].k.rcv
  /\ (SocketEvent(s) /\ sess[s].r.state = HTTP_SESSION_INIT
        /\ memused > HTTP_MAX_TOTAL_EST_MEM_USAGE) => New503(s)
  /\ Rejected(s)' => \/ ~sess[s].r.alive'
                     \/ sess[s].r.state' = HTTP_SESSION_WRITE /\ ~Written(s)'

\* C9: a step builds a 503 only from INIT with memused above the cap, and then
\* with Connection: close, without reading the socket or calling the handler;
\* every socket event of a session in INIT with memused above the cap builds
\* one; and a session whose latest response is that 503 is writing it or ended.
C9_CapOnlyInInit == [][\A s \in Sessions : C9_Step(s)]_vars

\* A connection was refused with a complete 503, its request unread, while the
\* other session, past INIT, goes on writing with memused above the cap.
C9_Witness ==
  \E s \in Sessions :
    /\ Rejected(s) /\ ~sess[s].r.alive /\ Written(s)
    /\ sess[s].k.rcv # << >> /\ sess[s].h.calls = 0
    /\ Live(Other(s)) /\ sess[Other(s)].r.state = HTTP_SESSION_WRITE
    /\ memused > HTTP_MAX_TOTAL_EST_MEM_USAGE

C10_Step(s) ==
  (sess[s].g.ev' = "timer" /\ sess[s].g' # sess[s].g) =>
    /\ sess[s].r.timeout' = sess[s].r.timeout - 1
    /\ sess[s].k.out' = sess[s].k.out
    /\ Resps(s)' = Resps(s)
    /\ sess[s].r.alive' <=> sess[s].r.timeout' # 0
    /\ ~sess[s].r.alive' => /\ sess[s].k.closed'
                            /\ sess[s].k.interest' = "NONE"
                            /\ Held(s)' = 0

\* A live session has ticks left, and has been idle for fewer ticks than
\* HTTP_KEEP_ALIVE_TIMEOUT less what is left.
C10_Countdown ==
  \A s \in Sessions :
    Live(s) => /\ sess[s].r.timeout >= 1
               /\ sess[s].g.idle + sess[s].r.timeout <= HTTP_KEEP_ALIVE_TIMEOUT

\* C10: a timer tick takes one off the countdown of the session and writes no
\* byte and builds no response; the session is ended, with its events removed,
\* its socket closed and its buffer freed, exactly when the countdown reaches
\* zero; so no session is alive after HTTP_KEEP_ALIVE_TIMEOUT idle ticks.
C10_TimeoutEnds == [][\A s \in Sessions : C10_Step(s) /\ C10_Countdown']_vars

\* A connection left idle after a complete keep-alive response was ended by
\* the tick that made HTTP_KEEP_ALIVE_TIMEOUT idle ticks.
C10_Witness ==
  \E s \in Sessions :
    /\ ~sess[s].r.alive /\ sess[s].k.closed
    /\ sess[s].g.ev = "timer" /\ sess[s].g.idle = HTTP_KEEP_ALIVE_TIMEOUT
    /\ Len(Resps(s)) = 1 /\ Last(Resps(s)).keep /\ Written(s)

\* C11: on a connection whose request declares a Content-Length body, every
\* call of the request handler finds the whole declared body in the read
\* buffer (no byte of it beyond request->bytes), and http_request_body gives
\* it exactly the declared number of bytes that follow the header block.
C11_BodyComplete ==
  \A s \in Sessions :
    sess[s].meta.body # << >> =>
      \A j \in 1..Len(sess[s].h.seen) :
        /\ sess[s].h.seen[j].missing = 0
        /\ sess[s].h.seen[j].index = sess[s].meta.head
        /\ sess[s].h.seen[j].len = Len(sess[s].meta.body)
        /\ sess[s].h.seen[j].body = sess[s].meta.body

\* C12: once the read buffer holds more than HTTP_MAX_TOKEN_LENGTH bytes of a
\* method, target, version, header name or header value, the parser has
\* returned a BAD_REQUEST parse error and has not emitted that token.
C12_LongTokenIsBadRequest ==
  \A t \in LongTokens(pz.input) :
    pz.fed > t.index + HTTP_MAX_TOKEN_LENGTH =>
      /\ \E j \in 1..Len(pz.tokens) :
            /\ pz.tokens[j].type = HTTP_PARSE_ERROR
            /\ pz.tokens[j].index = HTTP_ERR_BAD_REQUEST
      /\ \A j \in 1..Len(pz.tokens) :
            ~(pz.tokens[j].type = t.type /\ pz.tokens[j].index = t.index)

\* The tokens of kind type among the first n tokens of the log.
TokensOf(tokens, type, n) == {j \in 1..n : tokens[j].type = type}

\* The place of the first parse error in the log, or one past its end.
FirstError(tokens) ==
  IF TokensOf(tokens, HTTP_PARSE_ERROR, Len(tokens)) = {} THEN Len(tokens) + 1
  ELSE CHOOSE j \in TokensOf(tokens, HTTP_PARSE_ERROR, Len(tokens)) :
         \A i \in TokensOf(tokens, HTTP_PARSE_ERROR, Len(tokens)) : j <= i

C14_ContentLengthBounded == pz.parser.content_length <= HTTP_MAX_CONTENT_LENGTH

\* What one step does to connection s, for C15.
C15_Step(s) ==
  LET a == sess[s]
      b == sess'[s]
  IN /\ ~b.g.fresh /\ ~b.g.twice
     /\ (a.h.plan.mode = "async" /\ b.r.alive /\ b.h.calls > a.h.calls /\ b.h.pending) =>
          /\ HTTP_RESPONSE_PAUSED \in b.r.flags
          /\ b.k.out = a.k.out
          /\ b.g.begun = a.g.begun
     /\ (a.h.plan.mode = "async" /\ a.h.pending /\ ~b.h.pending) =>
          /\ HTTP_RESPONSE_PAUSED \notin b.r.flags
          /\ HTTP_RESPONSE_READY \in b.r.flags
          /\ Len(b.g.resps) = Len(a.g.resps) + 1
          /\ b.g.begun = a.g.begun + 1
     /\ (b.h.calls > a.h.calls /\ b.h.plan.mode = "sync") =>
          /\ Len(b.g.resps) = Len(a.g.resps) + 1
          /\ b.g.begun = a.g.begun + 1

\* C15: a handler that returns without a response leaves the session paused
\* with nothing written and no buffer in the WRITE transition; the
\* http_respond that the host calls later clears HTTP_RESPONSE_PAUSED, sets
\* HTTP_RESPONSE_READY and brings its buffer to hs_write_response before it
\* returns; the buffer of a handler that responds before it returns is brought
\* there in the same callback; and no buffer is left waiting or brought to
\* hs_write_response twice by one callback.
C15_PausedThenWritten == [][\A s \in Sessions : C15_Step(s)]_vars

\* A host has answered a paused request and the answer is on the wire.
C15_Witness ==
  \E s \in Sessions :
    /\ sess[s].h.plan.mode = "async"
    /\ sess[s].g.ev = "host"
    /\ sess[s].g.begun = 1
    /\ sess[s].k.out # << >>

\* C16: in a chunked response the callback given to http_respond_chunk is
\* never called while response bytes are unwritten, never more often than
\* chunks have been handed to http_respond_chunk, and it has been called for
\* every chunk once the chunks handed over are all on the wire.
C16_NotifyOncePerChunk ==
  \A s \in Sessions :
    sess[s].h.plan.mode = "chunked" =>
      /\ ~sess[s].h.early
      /\ sess[s].h.done <= sess[s].h.sent
      /\ (sess[s].r.alive /\ HTTP_CHUNKED_RESPONSE \in sess[s].r.flags /\ Written(s)) =>
            sess[s].h.done = sess[s].h.sent

\* The lines "key: value\r\n" of a header list, in the order of the list.
RECURSIVE HeaderBytes(_)
HeaderBytes(headers) ==
  IF headers = << >> THEN << >>
  ELSE Head(headers).key \o STR_COLON_SP \o Head(headers).value \o STR_CRLF
         \o HeaderBytes(Tail(headers))

\* What one step does to connection s, for C17: the step in which
\* HTTP_CHUNKED_RESPONSE is cleared is the one that calls http_respond_chunk_end.
C17_Step(s) ==
  (HTTP_CHUNKED_RESPONSE \in sess[s].r.flags
     /\ HTTP_CHUNKED_RESPONSE \notin sess'[s].r.flags) =>
    sess'[s].k.out = sess[s].k.out \o STR_ZERO_CRLF
                       \o HeaderBytes(HostTrailers(sess[s].h.plan).headers) \o STR_CRLF

\* C17: http_respond_chunk_end clears HTTP_CHUNKED_RESPONSE and puts on the
\* wire "0\r\n", one line "key: value\r\n" for each header of its response, one
\* "\r\n" and nothing more (so "0\r\n\r\n" when there are no trailers).
C17_ChunkEndBytes == [][\A s \in Sessions : C17_Step(s)]_vars

\* The response the claim describes for a status, a Connection value, the
\* application's headers and a body: the status line, the Date line, the
\* Connection line, the application's header lines, the Content-Length line,
\* the blank line and the body.
PlainResponse(status, connection, headers, body) ==
  STR_HTTP11 \o Digits(status, 10) \o <<SP>> \o hs_status_text(status) \o STR_DATE
    \o ServerDate \o STR_CRLF
    \o STR_CONNECTION \o STR_COLON_SP \o connection \o STR_CRLF
    \o HeaderBytes(headers)
    \o STR_CONTENT_LENGTH \o Digits(Len(body), 10) \o STR_CRLF
    \o STR_CRLF \o body

\* The first response of connection s as the claim describes it.
C19_Expected(s) ==
  PlainResponse(sess[s].h.plan.status,
                IF Resps(s)[1].keep THEN STR_KEEP_ALIVE ELSE STR_CLOSE,
                HostResponse(sess[s].h.plan).headers, sess[s].h.plan.body)

\* C19: the bytes of a response that the application makes with http_respond
\* are the status line, one Date line, one Connection line, the application's
\* header lines, one Content-Length line with the length of the body, a blank
\* line and the body: what is on the wire of it is a prefix of that, and all
\* of it once the response is written.
C19_PlainResponseBytes ==
  \A s \in Sessions :
    (sess[s].h.plan.mode \in {"sync", "async"} /\ Resps(s) # << >>
       /\ Resps(s)[1].by = "host") =>
      /\ IsPrefix(Take(sess[s].k.out, Len(C19_Expected(s))), C19_Expected(s))
      /\ (Len(Resps(s)) = 1 /\ Written(s)) => sess[s].k.out = C19_Expected(s)

\* The header block the claim describes for the first chunk: the status line,
\* the Date line, the Connection line, Transfer-Encoding: chunked, the
\* application's header lines and the blank line.
ChunkedHead(status, connection, headers) ==
  STR_HTTP11 \o Digits(status, 10) \o <<SP>> \o hs_status_text(status) \o STR_DATE
    \o ServerDate \o STR_CRLF
    \o STR_CONNECTION \o STR_COLON_SP \o connection \o STR_CRLF
    \o STR_TRANSFER_ENCODING \o STR_COLON_SP \o STR_CHUNKED \o STR_CRLF
    \o HeaderBytes(headers) \o STR_CRLF

\* A body framed as a chunk: its length in hexadecimal, CRLF, the body, CRLF.
ChunkFrame(body) == Digits(Len(body), 16) \o STR_CRLF \o body \o STR_CRLF

\* What one step does to connection s, for C18: a step that raises h.sent by
\* one is one call of http_respond_chunk.
C18_Step(s) ==
  LET a == sess[s]
      b == sess'[s]
  IN (a.h.plan.mode = "chunked" /\ b.h.sent = a.h.sent + 1) =>
       /\ HTTP_CHUNKED_RESPONSE \in b.r.flags
       /\ b.k.out =
            a.k.out
              \o (IF a.h.sent = 0
                  THEN ChunkedHead(a.h.plan.status,
                                   IF b.g.resps[1].keep THEN STR_KEEP_ALIVE ELSE STR_CLOSE,
                                   HostResponse(a.h.plan).headers)
                  ELSE << >>)
              \o ChunkFrame(a.h.plan.body)

\* C18: the first http_respond_chunk of a request sets HTTP_CHUNKED_RESPONSE
\* and puts on the wire the status line, Date, Connection, Transfer-Encoding:
\* chunked and the headers of its response, with no Content-Length, and then
\* its body as a chunk; a later call puts on the wire its body as a chunk and
\* nothing else.
C18_ChunkBytes == [][\A s \in Sessions : C18_Step(s)]_vars

\* The connections whose handler answers each request at once and gives a
\* directive with http_request_connection for some of them.
Directed(s) ==
  /\ sess[s].h.plan.mode = "sync"
  /\ sess[s].h.plan.conn \in {HTTP_KEEP_ALIVE, HTTP_CLOSE}

\* C20: the response to a request for which the handler has called
\* http_request_connection with HTTP_KEEP_ALIVE or HTTP_CLOSE is built without
\* automatic detection and says Connection: keep-alive resp. close, whatever
\* the version and the Connection header of the request; when the callback
\* that has written it returns the session is open and back in INIT resp.
\* ended with its socket closed; and the response to a later request of the
\* connection for which the handler gives no directive follows the automatic
\* rule again.
C20_DirectiveOverrides ==
  \A s \in Sessions :
    Directed(s) =>
      /\ \A j \in 1..Len(Resps(s)) :
           IF HostDirective(sess[s].h.plan, j) = "auto"
           THEN Resps(s)[j].auto /\ (Resps(s)[j].keep <=> KeepRule(sess[s].meta))
           ELSE /\ ~Resps(s)[j].auto
                /\ Resps(s)[j].keep <=> (sess[s].h.plan.conn = HTTP_KEEP_ALIVE)
      /\ (Resps(s) # << >> /\ HostDirective(sess[s].h.plan, 1) # "auto") =>
           IsPrefix(Take(sess[s].k.out, Len(C19_Expected(s))),
                    PlainResponse(sess[s].h.plan.status,
                                  IF sess[s].h.plan.conn = HTTP_KEEP_ALIVE
                                  THEN STR_KEEP_ALIVE ELSE STR_CLOSE,
                                  HostResponse(sess[s].h.plan).headers,
                                  sess[s].h.plan.body))
      /\ (Resps(s) # << >> /\ Written(s) /\ sess[s].g.ev # "timer"
            /\ HostDirective(sess[s].h.plan, Len(Resps(s))) # "auto") =>
           IF sess[s].h.plan.conn = HTTP_KEEP_ALIVE
           THEN /\ sess[s].r.alive /\ ~sess[s].k.closed
                /\ sess[s].r.state = HTTP_SESSION_INIT
           ELSE ~sess[s].r.alive /\ sess[s].k.closed

\* A connection whose handler forced keep-alive for its first HTTP/1.0 request
\* only has answered two requests: the first response says keep-alive, the
\* second one, under automatic detection, close.
C20_Witness ==
  \E s \in Sessions :
    /\ Directed(s) /\ sess[s].h.plan.once
    /\ Len(Resps(s)) = 2
    /\ Resps(s)[1].keep /\ ~Resps(s)[1].auto
    /\ ~Resps(s)[2].keep /\ Resps(s)[2].auto
    /\ Written(s)

\* C21: at every call of the request handler http_request_body gives a string
\* of length 0 when the request has no body and when its body is chunked.
C21_BodyViewEmpty ==
  \A s \in Sessions :
    (sess[s].meta.body = << >> /\ ~sess[s].meta.oversize) =>
      \A j \in 1..Len(sess[s].h.seen) : sess[s].h.seen[j].len = 0

\* An event on the socket of connection s (hs_session_io_cb) has been handled
\* in this step.
IoStep(s) ==
  /\ sess'[s].g.ev = "io"
  /\ sess'[s].script = sess[s].script
  /\ sess'[s] # sess[s]

\* The handler of a chunked request is called in state NOP, and it has been
\* called once the read buffer holds the whole header block.
C22_HandlerInNop ==
  \A s \in Sessions :
    sess[s].meta.payload # << >> =>
      /\ \A j \in 1..Len(sess[s].h.seen) : sess[s].h.seen[j].state = HTTP_SESSION_NOP
      /\ (Live(s) /\ sess[s].h.calls = 0 /\ ~sess[s].r.buf_null)
           => sess[s].r.bytes < sess[s].meta.head

\* An event on the socket of a session in state NOP reads nothing from the
\* socket, runs no parser and calls nothing: the session, the bytes waiting in
\* the socket and the application are as before.
C22_NopStep ==
  \A s \in Sessions :
    (sess[s].r.state = HTTP_SESSION_NOP /\ Live(s) /\ IoStep(s)) =>
      /\ sess'[s].r = sess[s].r
      /\ sess'[s].k.rcv = sess[s].k.rcv
      /\ sess'[s].k.out = sess[s].k.out
      /\ sess'[s].h = sess[s].h

C22_NopQuiet == [][C22_NopStep]_vars

\* C22: a request with Transfer-Encoding: chunked has its handler called in
\* state NOP as soon as its header block is read, and while a session is in
\* NOP no event on its socket reads the socket or runs the parser.
C22_ChunkedWaitsInNop == [](C22_HandlerInNop) /\ C22_NopQuiet

\* A session in NOP with request bytes waiting in its socket.
C22_Witness ==
  \E s \in Sessions :
    /\ Live(s) /\ sess[s].r.state = HTTP_SESSION_NOP
    /\ sess[s].g.ev = "io" /\ sess[s].k.rcv # << >> /\ ~sess[s].k.in_edge

\* C23: whenever the request handler or a chunk callback is called, every
\* token of the session's token log and the session's current token describes
\* bytes inside the filled part of the read buffer: index >= 0 and
\* index + len <= request->bytes.
C23_TokensInsideBuffer ==
  \A s \in Sessions : ~sess[s].h.stray

\* C24: a session with an allocated buffer has request->bytes <=
\* request->capacity, and in state WRITE request->written <= request->bytes.
C24_BufferBounds ==
  \A s \in Sessions :
    (Live(s) /\ ~sess[s].r.buf_null) =>
      /\ sess[s].r.bytes <= sess[s].r.capacity
      /\ sess[s].r.state = HTTP_SESSION_WRITE => sess[s].r.written <= sess[s].r.bytes

\* Session s is ended in this step.
Ended(s) == Live(s) /\ ~sess'[s].r.alive

\* A reason of its own for session s to be ended in this step: its countdown
\* ran out, its client closed or reset the connection, or its response is
\* written and the connection is not kept alive.
OwnEnd(s) ==
  \/ sess'[s].g.ev = "timer" /\ sess[s].r.timeout = 1
  \/ sess[s].k.eof
  \/ sess[s].k.gone
  \/ /\ Len(sess'[s].k.out) = sess'[s].g.handed
     /\ sess'[s].g.resps # << >> /\ ~Last(sess'[s].g.resps).keep

C25_Step ==
  /\ \A s \in Sessions : sess'[s] = sess[s] \/ sess'[Other(s)] = sess[Other(s)]
  /\ \A s \in Sessions : Ended(s) => OwnEnd(s) /\ Up'

Follows(a, b) ==
  \/ a = HTTP_METHOD /\ b = HTTP_TARGET
  \/ a = HTTP_TARGET /\ b = HTTP_VERSION
  \/ a = HTTP_VERSION /\ b \in {HTTP_HEADER_KEY, HTTP_BODY}
  \/ a = HTTP_HEADER_KEY /\ b = HTTP_HEADER_VALUE
  \/ a = HTTP_HEADER_VALUE /\ b \in {HTTP_HEADER_KEY, HTTP_BODY}
  \/ a \notin {HTTP_BODY, HTTP_PARSE_ERROR} /\ b = HTTP_PARSE_ERROR

\* C26: the tokens emitted for one request are a prefix of METHOD, TARGET,
\* VERSION, pairs of HEADER_KEY and HEADER_VALUE, BODY, or such a prefix ended
\* by one PARSE_ERROR.
C26_TokenOrder ==
  /\ pz.tokens # << >> => pz.tokens[1].type \in {HTTP_METHOD, HTTP_PARSE_ERROR}
  /\ \A j \in 1..(Len(pz.tokens) - 1) : Follows(pz.tokens[j].type, pz.tokens[j + 1].type)

\* C27: http_server_poll returns 1 when the request handler was invoked in
\* that call and 0 when it was not, and no other value.
C27_PollReturn ==
  /\ poll.ret \in {0, 1}
  /\ poll.ret = 1 <=> poll.handled

\* C28: a response given a status by http_response_status has that status
\* when it is between 100 and 599 inclusive and 500 otherwise; a response that
\* was given none has status 200.
C28_StatusStored ==
  rs.step # "none" =>
    rs.response.status =
      IF ~rs.called THEN 200
      ELSE IF rs.arg >= 100 /\ rs.arg <= 599 THEN rs.arg
      ELSE 500

\* A response that was given the status 600, the first value beyond the range.
C28_Witness == rs.called /\ rs.arg = 600 /\ rs.response.status = 500

\* The codes that have a reason phrase.
Reasoned ==
  {100, 101} \cup (200..206) \cup (300..305) \cup {307} \cup (400..413) \cup (500..504)

STR_GATEWAY_TIMEOUT == <<71, 97, 116, 101, 119, 97, 121, 32, 84, 105, 109, 101, 111, 117, 116>>

\* C29: the reason phrase of a status line is read from inside the table
\* hs_status_text; it is a reason for the codes 100, 101, 200-206, 300-305,
\* 307, 400-413 and 500-504 ("Gateway Timeout" for 504) and empty for every
\* other code.
C29_ReasonPhrase ==
  rs.step = "sent" =>
    /\ rs.inside
    /\ rs.response.status \in Reasoned <=> rs.text # << >>
    /\ rs.response.status = 504 => rs.text = STR_GATEWAY_TIMEOUT

\* What a step does to the countdown of a session that lives through it: a
\* timer tick takes one off; a step of the client leaves it; a step that
\* completes a keep-alive response sets HTTP_KEEP_ALIVE_TIMEOUT; one that
\* writes bytes of a response it leaves unfinished, or in which http_session
\* reads bytes from the socket, sets HTTP_REQUEST_TIMEOUT; any other step
\* (http_request_read_chunk called by the application among them) leaves it
\* or, for a read or write attempt that moved no byte, sets
\* HTTP_REQUEST_TIMEOUT.
C30_Step ==
  \A s \in Sessions :
    (Live(s) /\ sess'[s].r.alive /\ sess'[s] # sess[s]) =>
      IF sess'[s].script # sess[s].script
      THEN sess'[s].r.timeout = sess[s].r.timeout
      ELSE IF sess'[s].g.idle = sess[s].g.idle + 1
      THEN sess'[s].r.timeout = sess[s].r.timeout - 1
      ELSE IF /\ Len(sess'[s].k.out) > Len(sess[s].k.out)
              /\ Len(sess'[s].k.out) = sess'[s].g.handed
              /\ Last(sess'[s].g.resps).keep
              /\ HTTP_CHUNKED_RESPONSE \notin sess'[s].r.flags
      THEN sess'[s].r.timeout = HTTP_KEEP_ALIVE_TIMEOUT
      ELSE IF \/ Len(sess'[s].k.out) > Len(sess[s].k.out)
              \/ (IoStep(s) /\ Len(sess'[s].k.rcv) < Len(sess[s].k.rcv))
      THEN sess'[s].r.timeout = HTTP_REQUEST_TIMEOUT
      ELSE sess'[s].r.timeout \in {sess[s].r.timeout, HTTP_REQUEST_TIMEOUT}

C31_ShortWaits ==
  \A s \in Sessions :
    (/\ Live(s) /\ ~sess[s].r.buf_null
     /\ HTTP_RESPONSE_READY \in sess[s].r.flags
     /\ sess[s].r.written # sess[s].r.bytes) =>
       /\ sess[s].r.state = HTTP_SESSION_WRITE
       /\ sess[s].k.interest = "OUT"

\* An event of a session that waits in WRITE with bytes left sends the bytes
\* of the buffer that follow the written ones; while bytes are left it stays
\* as it is, but for the count of the written ones.
C31_Step ==
  \A s \in Sessions :
    (/\ Live(s) /\ ~sess[s].r.buf_null /\ IoStep(s)
     /\ sess[s].r.state = HTTP_SESSION_WRITE
     /\ sess[s].r.written < sess[s].r.bytes) =>
       LET n == Len(sess'[s].k.out) - Len(sess[s].k.out)
           rem == sess[s].r.bytes - sess[s].r.written
           m == IF n < rem THEN n ELSE rem
       IN /\ n >= 0
          /\ sess[s].r.bytes <= Len(sess[s].r.buf)
          /\ SubSeq(sess'[s].k.out, 1, Len(sess[s].k.out) + m)
               = sess[s].k.out
                   \o SubSeq(sess[s].r.buf, sess[s].r.written + 1, sess[s].r.written + m)
          /\ (n < rem /\ ~sess[s].k.gone) =>
               /\ sess'[s].r.alive
               /\ sess'[s].r.state = HTTP_SESSION_WRITE
               /\ sess'[s].k.interest = "OUT"
               /\ sess'[s].r.written = sess[s].r.written + n
               /\ sess'[s].r.bytes = sess[s].r.bytes
               /\ sess'[s].r.buf = sess[s].r.buf
               /\ sess'[s].h.calls = sess[s].h.calls
               /\ sess'[s].g.resps = sess[s].g.resps

C31_Resumes == [][C31_Step]_vars

\* C31: after a short write the session waits in WRITE with the writable
\* event armed; each later event sends the bytes of the response buffer that
\* follow the written ones, each once and in order, and the session is kept
\* as it is (no keep-alive reset, no close, no next chunk) until written
\* equals bytes, unless the write itself failed with a broken pipe.
C31_ShortWriteResumes == [](C31_ShortWaits) /\ C31_Resumes

\* The states in which http_session reads the socket.
Reading(r) ==
  r.state \in {HTTP_SESSION_READ_HEADERS, HTTP_SESSION_READ_BODY, HTTP_SESSION_READ_CHUNK}

\* An event of the session s that reads end of file ends the session and
\* writes nothing; a session whose peer has not reset the connection is ended
\* by an event of its socket only at end of file or after the last byte of a
\* response that closes; and an event that writes to a connection the peer
\* has reset ends the session.
C32_Step ==
  \A s \in Sessions :
    (Live(s) /\ IoStep(s)) =>
      /\ (Reading(sess[s].r) /\ sess[s].k.eof /\ ~sess[s].k.gone) =>
           /\ ~sess'[s].r.alive
           /\ sess'[s].k.out = sess[s].k.out
      /\ (~sess'[s].r.alive /\ ~sess[s].k.gone) =>
           \/ /\ Reading(sess[s].r) \/ sess[s].r.state = HTTP_SESSION_INIT
              /\ sess[s].k.eof
           \/ /\ Len(sess'[s].k.out) = sess'[s].g.handed
              /\ sess'[s].g.resps # << >>
              /\ ~Last(sess'[s].g.resps).keep
      /\ (/\ sess[s].k.gone /\ sess[s].r.state = HTTP_SESSION_WRITE
          /\ sess[s].r.written < sess[s].r.bytes) => ~sess'[s].r.alive

\* C32: end of file read in READ_HEADERS, READ_BODY or READ_CHUNK ends the
\* session and writes nothing; a write ends the session when it fails with a
\* broken pipe, and a write that succeeds or would block does not: the
\* session is then ended only by the completion of a response that closes.
C32_SilentClose == [][C32_Step]_vars

\* "\nContent-Length: " and "\nTransfer-Encoding: chunked\r\n"
STR_LF_CONTENT_LENGTH == <<10, 67, 111, 110, 116, 101, 110, 116, 45, 76, 101, 110, 103, 116, 104, 58, 32>>
STR_LF_TE_CHUNKED == <<10, 84, 114, 97, 110, 115, 102, 101, 114, 45, 69, 110, 99, 111, 100, 105, 110, 103, 58, 32, 99, 104, 117, 110, 107, 101, 100, 13, 10>>

\* The places of input where the bytes of pat stand.
Places(input, pat) ==
  {i \in 1..(Len(input) - Len(pat) + 1) : SubSeq(input, i, i + Len(pat) - 1) = pat}

\* The value of the decimal digits that stand at input[i] and after it.
RECURSIVE Decimal(_, _, _)
Decimal(input, i, acc) ==
  IF i <= Len(input) /\ input[i] \in 48..57
  THEN Decimal(input, i + 1, acc * 10 + (input[i] - 48))
  ELSE acc

\* The values the Content-Length headers of the input declare.
DeclaredLengths(input) ==
  {Decimal(input, i + Len(STR_LF_CONTENT_LENGTH), 0) : i \in Places(input, STR_LF_CONTENT_LENGTH)}

\* C33: the length of a BODY token is HTTP_CHUNKED_LEN when the request has
\* the header Transfer-Encoding: chunked and only then; otherwise it is the
\* decimal value of the request's Content-Length header, or 0 when the
\* request has none.
C33_BodyTokenLength ==
  \A j \in TokensOf(pz.tokens, HTTP_BODY, Len(pz.tokens)) :
    IF Places(pz.input, STR_LF_TE_CHUNKED) # {}
    THEN pz.tokens[j].len = HTTP_CHUNKED_LEN
    ELSE IF DeclaredLengths(pz.input) = {}
    THEN pz.tokens[j].len = 0
    ELSE pz.tokens[j].len \in DeclaredLengths(pz.input)

\* The compaction moved the n - tsi bytes of the token in progress to
\* body_start_index and left bytes and the resume position behind them.
C34_Moved ==
  pz.moved.on =>
    /\ pz.moved.bytes = pz.moved.bsi + (pz.moved.n - pz.moved.tsi)
    /\ pz.moved.start = pz.moved.bytes
    /\ Slice(pz.moved.after, pz.moved.bsi, pz.moved.n - pz.moved.tsi)
         = Slice(pz.moved.before, pz.moved.tsi, pz.moved.n - pz.moved.tsi)

C34_Views == pz.direction = "up" => IsPrefix(Concat(pz.views), pz.payload)

\* C34: a call of http_chunk_parse that ends without a token, with the token
\* in progress begun after body_start_index, moves the bytes of that token to
\* body_start_index and leaves bytes and the resume position right behind
\* them; and the views of the chunks delivered are the bytes of the chunks,
\* with a chunk extension as without.
C34_PartialChunkMoved == C34_Moved /\ C34_Views

\* The responses of connection s that the application has made.
HostResps(s) == {j \in 1..Len(sess[s].g.resps) : sess[s].g.resps[j].by = "host"}

\* A step calls the request handler of a connection once at most, and only
\* when every earlier call has been answered and the answer written out.
C35_Step ==
  \A s \in Sessions :
    sess'[s].h.calls > sess[s].h.calls =>
      /\ sess'[s].h.calls = sess[s].h.calls + 1
      /\ ~sess[s].h.pending
      /\ Written(s)
      /\ sess[s].h.plan.mode \in {"sync", "async"} =>
           Cardinality(HostResps(s)) = sess[s].h.calls

\* C35: the request handler is called once per request: after a call no event
\* of the connection calls it again before the response to that request has
\* been written out, whether or not the handler has responded and whatever
\* bytes arrive.
C35_HandlerOncePerRequest == [][C35_Step]_vars

\* C36: a session that hs_end_session has ended is not read or written by
\* the engine afterwards and is not ended a second time, whether it was ended
\* by the read of http_request_read_chunk or by hs_write_response inside
\* hs_exec_response_handler or a chunk callback.
C36_NoUseAfterEnd ==
  \A s \in Sessions : ~sess[s].g.uaf /\ sess[s].g.ends <= 1

\* C37: a session that has written out a keep-alive response and is back in
\* INIT is registered for readable events, also when the write of the
\* response was completed by a writable event, so that the bytes of a next
\* request bring it to http_session.
C37_ReadableAfterKeepAlive ==
  \A s \in Sessions :
    (/\ Live(s) /\ sess[s].r.state = HTTP_SESSION_INIT
     /\ sess[s].g.resps # << >> /\ Last(sess[s].g.resps).keep
     /\ Written(s)) => sess[s].k.interest = "IN"

\* The place behind the first LF of body at or after place i (1-based), or 0.
RECURSIVE BehindLine(_, _)
BehindLine(body, i) ==
  IF i > Len(body) THEN 0
  ELSE IF body[i] = LF THEN i + 1
  ELSE BehindLine(body, i + 1)

\* The value of the hexadecimal digits that stand at body[i] and after it.
RECURSIVE Hexadecimal(_, _, _)
Hexadecimal(body, i, acc) ==
  IF i <= Len(body) /\ HexDigit(body[i]) >= 0
  THEN Hexadecimal(body, i + 1, acc * 16 + HexDigit(body[i]))
  ELSE acc

\* The number of chunks (size line, payload, CRLF) of the chunked body that
\* begin at place i and lie within its first fed bytes, up to the last chunk.
RECURSIVE ChunksWithin(_, _, _)
ChunksWithin(body, i, fed) ==
  IF BehindLine(body, i) = 0 THEN 0
  ELSE IF BehindLine(body, i) + Hexadecimal(body, i, 0) + 1 > fed THEN 0
  ELSE IF Hexadecimal(body, i, 0) = 0 THEN 1
  ELSE 1 + ChunksWithin(body, BehindLine(body, i) + Hexadecimal(body, i, 0) + 2, fed)

\* C38: a session that waits for the socket after the application has asked
\* for the next chunk has delivered every chunk whose bytes (size line,
\* payload and CRLF) have been received, however the reads have split them.
C38_ReceivedChunkDelivered ==
  pz.waiting => Len(pz.views) >= ChunksWithin(pz.input, 1, pz.fed)

\* C39: the first PARSE_ERROR token is the last token of the request, and it
\* is the token of the session, so that its subtype (BAD_REQUEST or
\* PAYLOAD_TOO_LARGE) is the one the status is chosen by, whatever bytes
\* follow it in the buffer.
C39_FirstErrorStands ==
  FirstError(pz.tokens) <= Len(pz.tokens) =>
    /\ FirstError(pz.tokens) = Len(pz.tokens)
    /\ pz.token.type = HTTP_PARSE_ERROR
    /\ pz.token.index = pz.tokens[FirstError(pz.tokens)].index

\* The calls of handle_request for the requests of connection s.
Ran(s) == sess[s].h.ran

\* The volume command the request of call c is for: by its method and body.
CommandFor(c) ==
  IF c.method = STR_POST
  THEN IF IsPrefix(STR_VOLUME_UP, c.body)
       THEN "amixer sset Digital 5%+"
       ELSE "amixer sset Digital 5%-"
  ELSE "none"

\* The Content-Type and the content the request of call c is to be served.
ServedFor(c) ==
  IF IsPrefix(STR_MANIFEST_JSON, c.target)
  THEN <<STR_APPLICATION_JSON, manifest>>
  ELSE <<STR_TEXT_HTML, html>>

\* C40: every call of the application's handler runs the one volume command
\* its request is for (up for a POST whose body begins with volume=up, down
\* for any other POST, none for another method), and has by its return passed
\* exactly one response to the engine, with status 200 and the manifest as
\* application/json for a target that begins with /manifest.json, the page as
\* text/html otherwise.
C40_VolumeHandler ==
  \A s \in Sessions :
    sess[s].h.plan.mode = "volume" =>
      /\ Len(Ran(s)) = sess[s].h.calls
      /\ Cardinality(HostResps(s)) = sess[s].h.calls
      /\ \A j \in HostResps(s) : sess[s].g.resps[j].status = 200
      /\ \A j \in 1..Len(Ran(s)) :
           /\ Ran(s)[j].command = CommandFor(Ran(s)[j])
           /\ Ran(s)[j].response.status = 200
           /\ Ran(s)[j].response.headers =
                <<[key |-> STR_CONTENT_TYPE, value |-> ServedFor(Ran(s)[j])[1]]>>
           /\ Ran(s)[j].response.body = ServedFor(Ran(s)[j])[2]

====
